---- MODULE Spec2Model ----
(***************************************************************************)
(* Interaction Discovery Engine of the BDD test generator.                 *)
(*                                                                         *)
(* The module models one discovery run of either driver (the CLI driver    *)
(* BDDTestGeneratorCLI.generate_tests of main.py and the HTTP driver       *)
(* _run_analysis_async of api/main.py) over the ElementDetector probes of  *)
(* src/browser/element_detector.py, the InteractionMapper and the DOMCache.*)
(* The browser page is the environment: what a probe observes on the page  *)
(* (menu state, modal probe result, URL, a raised error) is an input of    *)
(* the probe's action, drawn from a small set.                             *)
(*                                                                         *)
(* Python None / an absent Optional is the empty sequence, a present value *)
(* v is <<v>>.  Texts and hrefs are sequences of one-character strings so  *)
(* that str.strip() is computed and not assumed.                           *)
(***************************************************************************)
EXTENDS Integers, Sequences, FiniteSets, TLC

VARIABLES
    mode,            \* which driver runs: "cli" (main.py) or "api" (api/main.py)
    flags,           \* config.ENABLE_ADVANCED_POPUP_DETECTION / _HOVER_DETECTION
    use_cache,       \* BDDTestGeneratorCLI.cache is not None (args.no_cache unset)
    cache,           \* DOMCache table: url -> Optional row
    now,             \* wall clock, in hours
    pc,              \* position of the driver coroutine
    browser,         \* "none" | "open" | "closed"
    url,             \* page.url of the single tab
    mapper,          \* InteractionMapper: interactions, hover_interactions, popup_interactions
    hover_elements,  \* result of find_hoverable_elements
    popup_triggers,  \* result of detect_popup_triggers
    idx,             \* loop position in the current probing loop (1-based)
    adv_candidates,  \* candidate list of the running extended strategy
    adv_found,       \* interactions list local to the running extended strategy
    written,         \* feature documents written to the output directory, in order
    result,          \* what the run reports to its caller
    probe_log,       \* engine calls made on the page session so far, in order
    last_probe,      \* what the most recent probe observed and returned
    requests         \* API requests in flight: their sessions and page logs

vars == <<mode, flags, use_cache, cache, now, pc, browser, url, mapper,
          hover_elements, popup_triggers, idx, adv_candidates, adv_found,
          written, result, probe_log, last_probe, requests>>

----------------------------------------------------------------------------
(* Bounds of the model *)

MaxHoverCands == 6       \* longest hover candidate list a scan returns
MaxPopupCands == 4       \* longest popup candidate list a scan returns
MaxReveals == 1          \* candidates of one loop that reveal something
MaxAdvCands == 2         \* longest candidate list of an extended strategy
MaxButtons == 11         \* most buttons inside a load-time dialog
MaxRequests == 2         \* API requests served at the same time

(* Program constants *)

HOVER_PROBE_CAP == 5             \* hover_elements[:5]
POPUP_PROBE_CAP == 3             \* popup_triggers[:3]
MAX_HOVER_ELEMENTS == 25
MAX_POPUP_TRIGGERS == 10
CACHE_EXPIRY_HOURS == 24
LOAD_POPUP_BUTTON_LIMIT == 10    \* len(buttons) >= 10 -> layout, not popup
CLICKABLE_LINK_CAP == 10         \* links[:10]
max_delta_y == 500               \* pixels below the trigger
BROWSER_TIMEOUT == 900000000     \* ms, the page default timeout
HOVER_TIMEOUT == 5000            \* ms, locator.hover(timeout=5000)
INTERACTION_TIMEOUT == 25        \* seconds

----------------------------------------------------------------------------
(* Optional values and small helpers *)

None == <<>>
Some(v) == <<v>>
IsSome(o) == Len(o) = 1
Get(o) == o[1]

Min(a, b) == IF a <= b THEN a ELSE b

Take(s, n) == SubSeq(s, 1, Min(n, Len(s)))

SeqRange(s) == {s[k] : k \in 1..Len(s)}

(* str.strip(): drop leading and trailing blanks *)
RECURSIVE StripLeft(_)
StripLeft(s) ==
    IF s = <<>> THEN <<>>
    ELSE IF Head(s) = " " THEN StripLeft(Tail(s)) ELSE s

RECURSIVE StripRight(_)
StripRight(s) ==
    IF s = <<>> THEN <<>>
    ELSE IF s[Len(s)] = " " THEN StripRight(SubSeq(s, 1, Len(s) - 1)) ELSE s

Strip(s) == StripRight(StripLeft(s))

----------------------------------------------------------------------------
(* Data of the page under test *)

BlankUrl == "about:blank"
TargetUrl == "https://site.test/page"
OtherUrl == "https://site.test/other"
SlashUrl == "https://site.test/page/"
Urls == {TargetUrl, OtherUrl}

T_Shop == <<"S", "h", "o", "p">>
T_New == <<"N", "e", "w">>
T_Sale == <<"S", "a", "l", "e">>
T_Home == <<"H", "o", "m", "e">>
H_Shop == <<"/", "s">>
H_New == <<"/", "n">>
H_Sale == <<"/", "x">>
H_Home == <<"/">>

LabelChars == <<"a", "b", "c", "d", "e", "f", "g", "h">>
UpperChars == <<"A", "B", "C", "D", "E", "F", "G", "H">>
(* the k-th label of a page: a, b, ..., h, then two-letter labels *)
Label(k) ==
    IF k <= Len(LabelChars) THEN <<LabelChars[k]>>
    ELSE <<LabelChars[((k - 1) % Len(LabelChars)) + 1],
           LabelChars[(k - 1) \div Len(LabelChars)]>>
XPath(n) == <<"/", n>>
StaleXPath == <<>>   \* a locator path that resolves to no element of the page
Resolves(xpath) == Len(xpath) > 0

(* ElementInfo(tag, text, role, xpath, attributes, location) *)
ElementInfo(tag, text, role, xpath, y) ==
    [tag |-> tag, text |-> text, role |-> role, xpath |-> xpath,
     location |-> [y |-> y]]

HoverCandidate(k, stale) ==
    ElementInfo("a", Label(k), "menuitem",
                IF stale THEN StaleXPath ELSE XPath(k), 10)

(* the same label in capitals, on another element of the page *)
HoverCandidateUpper(k) ==
    ElementInfo("li", <<UpperChars[k]>>, "menuitem", XPath(50 + k), 10)

PopupCandidate(k, stale) ==
    ElementInfo("button", <<"p">> \o Label(k), "button",
                IF stale THEN StaleXPath ELSE XPath(100 + k), 300)

(* another element of the page with the label of the k-th popup trigger *)
PopupCandidateTwin(k) ==
    ElementInfo("a", <<"p">> \o Label(k), "link", XPath(150 + k), 320)

CtaCandidate(k) == ElementInfo("button", <<"c">> \o Label(k), "button", XPath(200 + k), 400)

LooseCandidate(k) == ElementInfo("a", <<"n">> \o Label(k), "link", XPath(300 + k), 20)

(* candidate lists with at most one stale locator, at position p (0: none) *)
HoverList(n, p) == [k \in 1..n |-> HoverCandidate(k, k = p)]
PopupList(n, p) == [k \in 1..n |-> PopupCandidate(k, k = p)]

Buttons(n) == [k \in 1..n |-> [text |-> <<"O", "K">>, href |-> <<>>]]

(* value of the modal probe script for a visible dialog with n buttons *)
PopupInfo(n) == [title |-> <<"C", "o", "n", "f", "i", "r", "m">>,
                 buttons |-> Buttons(n), selector |-> "[role=dialog]"]

(* MenuState snapshots {count, signature} *)
MenuStates ==
    { [count |-> 0, signature |-> ""],
      [count |-> 1, signature |-> "m1|shop"],
      [count |-> 1, signature |-> "m1|sale"],
      [count |-> 2, signature |-> "m1|shop||m2|sale"] }

(* value of the menu-structure script: null or the first menu with links *)
ShopMenu ==
    [menu_type |-> "dropdown", sections |-> <<>>,
     all_links |-> <<T_New, T_Shop>>,
     links |-> << [text |-> T_New, href |-> H_New],
                  [text |-> T_Shop, href |-> H_Shop] >>]

MenuStructures == {None, Some(ShopMenu)}

(* menu state before -> after a hover: unchanged, a menu opens, the shared
   menu changes content, a menu closes *)
MenuTransitions ==
    { <<b, a>> \in MenuStates \X MenuStates :
        \/ b = a
        \/ a.count = b.count + 1
        \/ a.count = 1 /\ b.count > 0 }

(* visible-element snapshots: {tag, text, href, y, ...} *)
HomeAnchor == [tag |-> "a", text |-> T_Home, href |-> H_Home, y |-> 10]
SaleAnchor == [tag |-> "a", text |-> T_Sale, href |-> H_Sale, y |-> 60]

SnapshotsBefore == { <<HomeAnchor>> }
SnapshotsAfter == { <<HomeAnchor>>, <<HomeAnchor, SaleAnchor>> }

----------------------------------------------------------------------------
(* ElementDetector: the probes as functions of what the page shows *)

Interaction(trigger_element, action_type, interaction_method, menu_structure, url_before, popup_appeared, popup_info, visual_changes) ==
    [trigger_element |-> trigger_element, action_type |-> action_type,
     interaction_method |-> interaction_method, revealed_elements |-> <<>>,
     menu_structure |-> menu_structure, url_before |-> url_before,
     url_after |-> None, popup_appeared |-> popup_appeared,
     popup_info |-> popup_info, visual_changes |-> visual_changes]

LoadTrigger == ElementInfo("body", <<"l", "o", "a", "d">>, "load", XPath(0), 0)

(* _detect_popup: the script's value, or None when the evaluation raises *)
_detect_popup(raised, value) == IF raised THEN None ELSE value

(* variant: the guard compares with > instead of >= *)
detect_initial_popup_gt(url_arg, popup_info) ==
    IF ~IsSome(popup_info) THEN None
    ELSE IF Len(Get(popup_info).buttons) > LOAD_POPUP_BUTTON_LIMIT THEN None
    ELSE Some(Interaction(LoadTrigger, "load", "auto-popup", None, url_arg,
                          TRUE, popup_info, None))

detect_initial_popup(url_arg, popup_info) ==
    IF ~IsSome(popup_info) THEN None
    ELSE IF Len(Get(popup_info).buttons) >= LOAD_POPUP_BUTTON_LIMIT THEN None
    ELSE Some(Interaction(LoadTrigger, "load", "auto-popup", None, url_arg,
                          TRUE, popup_info, None))

(* _extract_clickable_links: first 10 links, stripped text, distinct hrefs *)
RECURSIVE ClickableFrom(_, _)
RECURSIVE ClickableFrom_no_seen(_, _)
(* variant: no record of the hrefs already taken *)
ClickableFrom_no_seen(links, seen) ==
    IF links = <<>> THEN <<>>
    ELSE LET link == Head(links)
             text == Strip(link.text)
             href == link.href
         IN IF text # <<>> /\ href # <<>>
            THEN <<[text |-> text, target_url |-> href]>>
                 \o ClickableFrom_no_seen(Tail(links), seen)
            ELSE ClickableFrom_no_seen(Tail(links), seen)

ClickableFrom(links, seen) ==
    IF links = <<>> THEN <<>>
    ELSE LET link == Head(links)
             text == Strip(link.text)
             href == link.href
         IN IF text # <<>> /\ href # <<>> /\ href \notin seen
            THEN <<[text |-> text, target_url |-> href]>>
                 \o ClickableFrom(Tail(links), seen \cup {href})
            ELSE ClickableFrom(Tail(links), seen)

(* variant: the slice starts one link late *)
_extract_clickable_links_skip_first(links) ==
    ClickableFrom(SubSeq(links, 2, Min(Len(links), CLICKABLE_LINK_CAP)), {})

_extract_clickable_links(links) ==
    ClickableFrom(Take(links, CLICKABLE_LINK_CAP), {})

(* _extract_new_nav_links: anchors of `after` absent from `before`, in the
   band 0 <= y <= trigger_y + max_delta_y, distinct hrefs *)
BeforeKeys(before) ==
    { <<Strip(before[k].href), Strip(before[k].text)>> :
        k \in {j \in 1..Len(before) :
                 Strip(before[j].href) # <<>> /\ Strip(before[j].text) # <<>>} }

RECURSIVE NewLinksFrom(_, _, _, _)
NewLinksFrom(after, before_keys, trigger_y, seen_hrefs) ==
    IF after = <<>> THEN <<>>
    ELSE LET el == Head(after)
             href == Strip(el.href)
             text == Strip(el.text)
             skip == \/ href = <<>> \/ text = <<>>
                     \/ <<href, text>> \in before_keys
                     \/ el.y < 0
                     \/ el.y > trigger_y + max_delta_y
                     \/ href \in seen_hrefs
         IN IF skip
            THEN NewLinksFrom(Tail(after), before_keys, trigger_y, seen_hrefs)
            ELSE <<[text |-> text, target_url |-> href]>>
                 \o NewLinksFrom(Tail(after), before_keys, trigger_y,
                                 seen_hrefs \cup {href})

_extract_new_nav_links(before, after, trigger_element) ==
    NewLinksFrom(after, BeforeKeys(before), trigger_element.location.y, {})

(* the awaited calls of simulate_hover_interaction that can raise *)
HoverFaults == {"none", "snapshot_before", "scroll", "hover", "extract",
                "snapshot_after"}

dropdown_detected(menu_state_before, menu_state_after) ==
    \/ menu_state_after.count > menu_state_before.count
    \/ /\ menu_state_after.count >= 1
       /\ menu_state_after.signature # menu_state_before.signature

MenuStructure(menu_structure) ==
    [sections |-> menu_structure.sections, all_links |-> menu_structure.all_links,
     menu_type |-> menu_structure.menu_type, layout |-> "single-column"]

(* the awaited call of the probe that raises, "none" if none does; a stale
   locator raises when it is scrolled into view *)
HoverRaisedAt(element, fault, menu_state_before, menu_state_after) ==
    IF fault = "snapshot_before" THEN fault
    ELSE IF ~Resolves(element.xpath) THEN "scroll"
    ELSE IF fault \in {"scroll", "hover"} THEN fault
    ELSE IF /\ dropdown_detected(menu_state_before, menu_state_after)
            /\ fault = "extract" THEN fault
    ELSE IF /\ ~dropdown_detected(menu_state_before, menu_state_after)
            /\ fault = "snapshot_after" THEN fault
    ELSE "none"

(* how long an awaited locator call waits, in ms, for a target that never
   becomes actionable: the timeout it was given, the page default when it
   was given none *)
ActionTimeout(call) ==
    IF call = "hover" THEN HOVER_TIMEOUT
    ELSE IF call = "click" THEN INTERACTION_TIMEOUT * 1000
    ELSE BROWSER_TIMEOUT

(* the time a hover probe spends waiting for a locator that matches
   nothing, 0 when its locator matches *)
HoverWaited(element, fault, menu_state_before, menu_state_after) ==
    LET at == HoverRaisedAt(element, fault, menu_state_before, menu_state_after)
    IN IF ~Resolves(element.xpath) /\ at \in {"scroll", "hover"}
       THEN ActionTimeout(at) ELSE 0

(* variant: the scroll happens before the try block is entered *)
HoverTryBlock_scroll_outside == {"snapshot_before", "hover", "extract",
                                 "snapshot_after"}

(* the calls inside the try block of simulate_hover_interaction *)
HoverTryBlock == {"snapshot_before", "scroll", "hover", "extract",
                  "snapshot_after"}

HoverRaises(element, fault, menu_state_before, menu_state_after) ==
    HoverRaisedAt(element, fault, menu_state_before, menu_state_after) # "none"

(* the exception leaves simulate_hover_interaction *)
HoverPropagates(element, fault, menu_state_before, menu_state_after) ==
    HoverRaisedAt(element, fault, menu_state_before, menu_state_after)
        \notin HoverTryBlock \cup {"none"}

(* variant: the dropdown record is flagged as a popup *)
HoverMenuInteraction_popup_flag(element, url_before, menu_structure) ==
    LET clickable_links ==
            IF IsSome(menu_structure) /\ Get(menu_structure).links # <<>>
            THEN _extract_clickable_links(Get(menu_structure).links)
            ELSE <<>>
    IN Interaction(element, "hover", "hover-menu",
                   IF IsSome(menu_structure)
                   THEN Some(MenuStructure(Get(menu_structure))) ELSE None,
                   url_before, TRUE, None,
                   IF clickable_links # <<>>
                   THEN Some([clickable_links |-> clickable_links]) ELSE None)

(* the Interaction of a confirmed dropdown (primary detection) *)
HoverMenuInteraction(element, url_before, menu_structure) ==
    LET clickable_links ==
            IF IsSome(menu_structure) /\ Get(menu_structure).links # <<>>
            THEN _extract_clickable_links(Get(menu_structure).links)
            ELSE <<>>
    IN Interaction(element, "hover", "hover-menu",
                   IF IsSome(menu_structure)
                   THEN Some(MenuStructure(Get(menu_structure))) ELSE None,
                   url_before, FALSE, None,
                   IF clickable_links # <<>>
                   THEN Some([clickable_links |-> clickable_links]) ELSE None)

(* the Interaction of the diff fallback *)
HoverDiffInteraction(element, url_before, fallback_links) ==
    Interaction(element, "hover", "hover-nav-diff", None, url_before, FALSE,
                None, Some([clickable_links |-> fallback_links]))

simulate_hover_interaction(element, url_before, fault, menu_state_before, menu_state_after, menu_structure, visible_before, visible_after) ==
    IF HoverRaises(element, fault, menu_state_before, menu_state_after)
    THEN None
    ELSE IF dropdown_detected(menu_state_before, menu_state_after)
    THEN Some(HoverMenuInteraction(element, url_before, menu_structure))
    ELSE LET fallback_links ==
                 _extract_new_nav_links(visible_before, visible_after, element)
         IN IF fallback_links # <<>>
            THEN Some(HoverDiffInteraction(element, url_before, fallback_links))
            ELSE None

(* the awaited calls of simulate_popup_interaction that can raise *)
ClickFaults == {"none", "scroll", "click"}

ClickRaisedAt(element, fault) ==
    IF ~Resolves(element.xpath) THEN "scroll" ELSE fault

(* the time a click probe spends waiting for a locator that matches
   nothing, 0 when its locator matches *)
ClickWaited(element, fault) ==
    LET at == ClickRaisedAt(element, fault)
    IN IF ~Resolves(element.xpath) /\ at \in {"scroll", "click"}
       THEN ActionTimeout(at) ELSE 0

(* variant: the click happens before the try block is entered *)
ClickTryBlock_click_outside == {"scroll"}

(* the calls inside the try block of simulate_popup_interaction *)
ClickTryBlock == {"scroll", "click"}

ClickRaises(element, fault) == ClickRaisedAt(element, fault) # "none"

(* the exception leaves simulate_popup_interaction *)
ClickPropagates(element, fault) ==
    ClickRaisedAt(element, fault) \notin ClickTryBlock \cup {"none"}

(* variant: the URL comparison is missing *)
simulate_popup_interaction_url_unchecked(element, url_before, fault, popup_info, url_after) ==
    IF ClickRaises(element, fault) THEN None
    ELSE IF IsSome(popup_info)
    THEN Some(Interaction(element, "click", "click-popup", None, url_before,
                          TRUE, popup_info, None))
    ELSE None

simulate_popup_interaction(element, url_before, fault, popup_info, url_after) ==
    IF ClickRaises(element, fault) THEN None
    ELSE IF IsSome(popup_info) /\ url_after = url_before
    THEN Some(Interaction(element, "click", "click-popup", None, url_before,
                          TRUE, popup_info, None))
    ELSE None

----------------------------------------------------------------------------
(* Candidate Scanner *)

RECURSIVE DedupByText(_, _)
DedupByText(elements, seen_texts) ==
    IF elements = <<>> THEN <<>>
    ELSE LET el == Head(elements)
         IN IF el.text # <<>> /\ el.text \notin seen_texts
            THEN <<el>> \o DedupByText(Tail(elements), seen_texts \cup {el.text})
            ELSE DedupByText(Tail(elements), seen_texts)

(* variant: the unique list is built by prepending *)
_deduplicate_elements_prepend(elements) ==
    LET unique == DedupByText(elements, {})
    IN [k \in 1..Len(unique) |-> unique[Len(unique) + 1 - k]]

_deduplicate_elements(elements) == DedupByText(elements, {})

(* variant: the list is cut before it is deduplicated *)
find_hoverable_elements_cut_first(aria_triggers, nav_triggers_strict, nav_triggers_loose, css_triggers) ==
    _deduplicate_elements(Take(aria_triggers \o nav_triggers_strict
                                   \o nav_triggers_loose \o css_triggers,
                               MAX_HOVER_ELEMENTS))

find_hoverable_elements(aria_triggers, nav_triggers_strict, nav_triggers_loose, css_triggers) ==
    Take(_deduplicate_elements(aria_triggers \o nav_triggers_strict
                               \o nav_triggers_loose \o css_triggers),
         MAX_HOVER_ELEMENTS)

RECURSIVE DedupByKey(_, _)
DedupByKey(candidates, seen_keys) ==
    IF candidates = <<>> THEN <<>>
    ELSE LET el == Head(candidates)
             key == <<el.text, el.xpath>>
         IN IF key \in seen_keys
            THEN DedupByKey(Tail(candidates), seen_keys)
            ELSE <<el>> \o DedupByKey(Tail(candidates), seen_keys \cup {key})

detect_popup_triggers(classic_triggers, external_triggers) ==
    Take(DedupByKey(classic_triggers \o external_triggers, {}), MAX_POPUP_TRIGGERS)

(* a page with more distinct triggers than find_hoverable_elements returns:
   a repeated label among the first ones, MAX_HOVER_ELEMENTS + 1 labels *)
LongHoverScan ==
    << HoverList(2, 0), <<HoverCandidate(1, FALSE)>>, <<>>,
       [k \in 1..(MAX_HOVER_ELEMENTS - 1) |-> HoverCandidate(k + 2, FALSE)] >>

(* what the four hover strategies can return on the pages of the model *)
HoverLens == {0, 1, MaxHoverCands}
StalePositions == {0, 2}
HoverScans ==
    { <<HoverList(np[1], np[2]), <<>>, <<>>, <<>>>> :
        np \in {x \in HoverLens \X StalePositions : x[2] = 0 \/ x[1] >= x[2]} }
    \cup { << <<HoverCandidate(1, FALSE)>>,
              <<HoverCandidate(1, TRUE), HoverCandidate(2, FALSE)>>,
              <<>>, <<>> >> }

(* further pages: a label repeated in capitals by another strategy, every
   strategy contributing, a long page *)
WideHoverScans ==
    HoverScans
    \cup { << <<HoverCandidate(1, FALSE)>>, <<>>, <<>>,
              <<HoverCandidateUpper(1), HoverCandidate(2, FALSE)>> >>,
           << <<HoverCandidate(3, FALSE)>>, <<HoverCandidate(1, FALSE)>>,
              <<HoverCandidate(3, FALSE), HoverCandidate(2, FALSE)>>,
              <<HoverCandidate(1, FALSE), HoverCandidate(4, FALSE)>> >>,
           LongHoverScan }

PopupLens == {0, MaxPopupCands}
(* a page with more distinct triggers than detect_popup_triggers returns:
   one trigger found by both strategies, one label on two elements *)
LongPopupScan ==
    << <<PopupCandidate(1, FALSE), PopupCandidateTwin(1)>>
           \o [k \in 1..(MAX_POPUP_TRIGGERS - 1) |-> PopupCandidate(k + 1, FALSE)],
       <<PopupCandidate(1, FALSE), PopupCandidate(MAX_POPUP_TRIGGERS + 1, FALSE)>> >>

PopupScans ==
    { <<PopupList(np[1], np[2]), <<>>>> :
        np \in {x \in PopupLens \X StalePositions : x[2] = 0 \/ x[1] >= x[2]} }

WidePopupScans ==
    PopupScans
    \cup { LongPopupScan,
           << <<PopupCandidate(2, FALSE), PopupCandidate(1, FALSE)>>,
              <<PopupCandidate(1, FALSE), PopupCandidateTwin(2),
                PopupCandidate(3, FALSE)>> >> }

----------------------------------------------------------------------------
(* InteractionMapper *)

EmptyMapper == [interactions |-> <<>>, hover_interactions |-> <<>>,
                popup_interactions |-> <<>>]

(* variant: the elif branch is missing *)
add_interaction_hover_only(m, interaction) ==
    [interactions |-> Append(m.interactions, interaction),
     hover_interactions |->
         IF interaction.action_type = "hover"
         THEN Append(m.hover_interactions, interaction)
         ELSE m.hover_interactions,
     popup_interactions |-> m.popup_interactions]

add_interaction(m, interaction) ==
    [interactions |-> Append(m.interactions, interaction),
     hover_interactions |->
         IF interaction.action_type = "hover"
         THEN Append(m.hover_interactions, interaction)
         ELSE m.hover_interactions,
     popup_interactions |->
         IF interaction.action_type # "hover" /\ interaction.popup_appeared
         THEN Append(m.popup_interactions, interaction)
         ELSE m.popup_interactions]

RECURSIVE add_all(_, _)
add_all(m, interactions) ==
    IF interactions = <<>> THEN m
    ELSE add_all(add_interaction(m, Head(interactions)), Tail(interactions))

----------------------------------------------------------------------------
(* GherkinGenerator: the documents, by kind *)

_generate_empty_feature(u) == [kind |-> "empty", url |-> u]

generate_feature_file(u, scenarios) ==
    IF scenarios = <<>> THEN _generate_empty_feature(u)
    ELSE [kind |-> "scenarios", url |-> u]

----------------------------------------------------------------------------
(* DOMCache *)

CacheKeys == {TargetUrl, SlashUrl}
EmptyCache == [k \in CacheKeys |-> None]
StartTime == 100

store_analysis(c, u, feature_content, t) ==
    [c EXCEPT ![u] = Some([url |-> u, feature_content |-> feature_content,
                           created_at |-> t,
                           expires_at |-> t + CACHE_EXPIRY_HOURS])]

invalidate_cache(c, u) == [c EXCEPT ![u] = None]

(* the value returned and the table afterwards *)
get_cached_analysis(c, u, t) ==
    IF ~IsSome(c[u]) THEN [value |-> None, cache |-> c]
    ELSE IF t > Get(c[u]).expires_at
    THEN [value |-> None, cache |-> invalidate_cache(c, u)]
    ELSE [value |-> Some([url |-> Get(c[u]).url,
                          feature_content |-> Get(c[u]).feature_content,
                          created_at |-> Get(c[u]).created_at]),
          cache |-> c]

(* rows an earlier run can have left: stored s hours before this run starts *)
StoredAgo(u, s) == Get(store_analysis(EmptyCache, u,
                                      generate_feature_file(u, <<"hover">>),
                                      StartTime - s)[u])
InitCaches ==
    { [k \in CacheKeys |-> IF k = TargetUrl THEN r ELSE q] :
        r \in {None, Some(StoredAgo(TargetUrl, 1)),
               Some(StoredAgo(TargetUrl, CACHE_EXPIRY_HOURS)),
               Some(StoredAgo(TargetUrl, CACHE_EXPIRY_HOURS + 1))},
        q \in {Some(StoredAgo(SlashUrl, 1))} }

----------------------------------------------------------------------------
(* Extended strategies *)

(* link snapshots of the in-page observer: {href, text, opacity (percent),
   ariaHidden} *)
ObservedHome(opacity, aria_hidden) ==
    [href |-> H_Home, text |-> T_Home, opacity |-> opacity,
     ariaHidden |-> aria_hidden]
ObservedSale == [href |-> H_Sale, text |-> T_Sale, opacity |-> 100,
                 ariaHidden |-> <<>>]

AdvBefore == <<ObservedHome(50, <<>>)>>
AdvAfters == { <<>>, <<ObservedSale>>, <<ObservedHome(100, <<>>)>>,
               <<ObservedHome(50, <<>>)>>, <<ObservedHome(0, <<>>)>>,
               <<ObservedHome(100, <<"t">>)>> }

AdvBeforeKeys(before) ==
    { <<Strip(before[k].href), Strip(before[k].text)>> :
        k \in {j \in 1..Len(before) :
                 before[j].href # <<>> /\ before[j].text # <<>>} }

RECURSIVE AdvNewLinksFrom(_, _, _)
AdvNewLinksFrom(after, before_keys, seen_hrefs) ==
    IF after = <<>> THEN <<>>
    ELSE LET a == Head(after)
             href == Strip(a.href)
             text == Strip(a.text)
             opacity == IF a.opacity = 0 THEN 100 ELSE a.opacity
             skip == \/ href = <<>> \/ text = <<>>
                     \/ /\ <<href, text>> \in before_keys
                        /\ (opacity < 95 \/ Strip(a.ariaHidden) # <<>>)
                     \/ href \in seen_hrefs
         IN IF skip
            THEN AdvNewLinksFrom(Tail(after), before_keys, seen_hrefs)
            ELSE <<[text |-> text, target_url |-> href]>>
                 \o AdvNewLinksFrom(Tail(after), before_keys,
                                    seen_hrefs \cup {href})

(* one iteration of find_advanced_hover_interactions: outcome is "raise",
   "null" (trigger not found) or "value" *)
advanced_hover_probe(element, url_before, outcome, before, after) ==
    IF outcome # "value" \/ after = <<>> THEN None
    ELSE LET new_links == AdvNewLinksFrom(after, AdvBeforeKeys(before), {})
         IN IF new_links = <<>> THEN None
            ELSE Some(Interaction(element, "hover", "hover-advanced", None,
                                  url_before, FALSE, None,
                                  Some([clickable_links |-> new_links])))

AdvLens == {0, MaxAdvCands}
CtaList(n) == [k \in 1..n |-> CtaCandidate(k)]
LooseList(n) == [k \in 1..n |-> LooseCandidate(k)]

----------------------------------------------------------------------------
(* The drivers *)

Running == [status |-> "running", returned_at |-> "", document |-> None,
            error |-> ""]

Returned(at, document) ==
    [status |-> "success", returned_at |-> at, document |-> Some(document),
     error |-> ""]

(* variant: a fatal error is reported as a completed run without interactions *)
Failed_as_empty(error) ==
    [status |-> "success", returned_at |-> "error",
     document |-> Some(_generate_empty_feature(TargetUrl)),
     error |-> error]

Failed(error) ==
    [status |-> "failure", returned_at |-> "error", document |-> None,
     error |-> error]

Probe(kind, element, faulted, dropdown, popup_info, url_before, url_after, returned) ==
    [kind |-> kind, element |-> element, faulted |-> faulted,
     dropdown |-> dropdown, popup_info |-> popup_info,
     url_before |-> url_before, url_after |-> url_after, returned |-> returned,
     observation |-> None, waited |-> 0]

NoProbe == Probe("none", LoadTrigger, FALSE, FALSE, None, BlankUrl, BlankUrl, None)

Call(kind, k) == [kind |-> kind, idx |-> k]

(* the API driver's requests: no request has created a session *)
RunIds == 1..MaxRequests
NewRun == [pc |-> "create", session |-> None, plan |-> <<>>, idx |-> 1]
NoRequests == [launched |-> 0, runs |-> [r \in RunIds |-> NewRun],
               page_log |-> <<>>]

(* variant: the slice [:5] is missing *)
HoverCount_uncapped(he) == Len(he)

HoverCount(he) == Min(HOVER_PROBE_CAP, Len(he))
ClickCount(pt) == Min(POPUP_PROBE_CAP, Len(pt))
AdvClickCount(cands) == Min(Len(cands), MAX_POPUP_TRIGGERS)

(* where the driver goes once a phase has nothing (more) to probe *)
AfterAdvancedPopup(m) ==
    IF mode = "cli" /\ m.interactions = <<>> /\ flags.hover
    THEN "adv_hover_scan" ELSE "report"

(* variant: the feature flag is not consulted *)
AfterPrimary_flag_ignored(m) ==
    IF mode = "cli" /\ m.popup_interactions = <<>>
    THEN "adv_popup_scan" ELSE AfterAdvancedPopup(m)

AfterPrimary(m) ==
    IF mode = "cli" /\ m.popup_interactions = <<>> /\ flags.popup
    THEN "adv_popup_scan" ELSE AfterAdvancedPopup(m)

EnterClick(pt, m) ==
    IF ClickCount(pt) > 0 THEN "click_loop" ELSE AfterPrimary(m)

(* variant: the hover loop is skipped *)
EnterHover_clicks_first(he, pt, m) == EnterClick(pt, m)

EnterHover(he, pt, m) ==
    IF HoverCount(he) > 0 THEN "hover_loop" ELSE EnterClick(pt, m)

(* the runs of the model: which driver, the two feature flags, caching *)
FlagsOff == [popup |-> FALSE, hover |-> FALSE]
FlagsOn == [popup |-> TRUE, hover |-> TRUE]
Configs ==
    { [mode |-> "api", flags |-> f, use_cache |-> FALSE, cache |-> EmptyCache] :
        f \in {FlagsOn} }
    \cup { [mode |-> "cli", flags |-> f, use_cache |-> FALSE, cache |-> EmptyCache] :
             f \in [popup : BOOLEAN, hover : BOOLEAN] }
    \cup { [mode |-> "cli", flags |-> FlagsOff, use_cache |-> TRUE, cache |-> c] :
             c \in InitCaches }

Init ==
    /\ \E cfg \in Configs :
         /\ mode = cfg.mode
         /\ flags = cfg.flags
         /\ use_cache = cfg.use_cache
         /\ cache = cfg.cache
    /\ now = StartTime
    /\ pc = "initialize"
    /\ browser = "none"
    /\ url = BlankUrl
    /\ mapper = EmptyMapper
    /\ hover_elements = <<>>
    /\ popup_triggers = <<>>
    /\ idx = 1
    /\ adv_candidates = <<>>
    /\ adv_found = <<>>
    /\ written = <<>>
    /\ result = Running
    /\ probe_log = <<>>
    /\ last_probe = NoProbe
    /\ requests = NoRequests

(* BDDTestGeneratorCLI.initialize / BrowserAutomation.create *)
Initialize ==
    /\ pc = "initialize"
    /\ \E outcome \in {"ok", "ollama", "browser_start"} :
         /\ outcome = "ollama" => mode = "cli"
         /\ IF outcome = "ok"
            THEN /\ browser' = "open"
                 /\ pc' = IF mode = "cli" /\ use_cache THEN "cache_check"
                          ELSE "navigate"
                 /\ result' = result
            ELSE /\ browser' = browser
                 /\ pc' = "cleanup"
                 /\ result' = Failed(outcome)
    /\ UNCHANGED <<requests, mode, flags, use_cache, cache, now, url, mapper,
                   hover_elements, popup_triggers, idx, adv_candidates,
                   adv_found, written, probe_log, last_probe>>

(* "if cached and cached.get('feature_content')" *)
NoContent == [kind |-> "none", url |-> ""]

(* variant: the cached row is never accepted *)
UseCached_never(cached) == FALSE

UseCached(cached) ==
    IsSome(cached) /\ Get(cached).feature_content # NoContent

(* generate_tests, step 1: cache lookup and the cached return *)
CacheCheck ==
    /\ pc = "cache_check"
    /\ LET r == get_cached_analysis(cache, TargetUrl, now)
       IN /\ cache' = r.cache
          /\ IF UseCached(r.value)
             THEN /\ written' = Append(written, Get(r.value).feature_content)
                  /\ result' = Returned("cache_hit", Get(r.value).feature_content)
                  /\ pc' = "cleanup"
             ELSE /\ written' = written
                  /\ result' = result
                  /\ pc' = "navigate"
    /\ UNCHANGED <<requests, mode, flags, use_cache, now, browser, url, mapper,
                   hover_elements, popup_triggers, idx, adv_candidates,
                   adv_found, probe_log, last_probe>>

(* browser.navigate(url) *)
Navigate ==
    /\ pc = "navigate"
    /\ probe_log' = Append(probe_log, Call("navigate", 0))
    /\ \E ok \in BOOLEAN :
         IF ok
         THEN /\ url' = TargetUrl
              /\ pc' = "load_probe"
              /\ result' = result
         ELSE /\ url' = url
              /\ pc' = "cleanup"
              /\ result' = Failed("navigation")
    /\ UNCHANGED <<requests, mode, flags, use_cache, cache, now, browser, mapper,
                   hover_elements, popup_triggers, idx, adv_candidates,
                   adv_found, written, last_probe>>

ButtonCounts == {LOAD_POPUP_BUTTON_LIMIT - 1, LOAD_POPUP_BUTTON_LIMIT, MaxButtons}

(* detect_initial_popup(url) and the driver's add_interaction *)
DetectInitialPopup ==
    /\ pc = "load_probe"
    /\ \E raised \in BOOLEAN,
          value \in {None} \cup {Some(PopupInfo(n)) : n \in ButtonCounts} :
         LET popup_info == _detect_popup(raised, value)
             initial_popup == detect_initial_popup(TargetUrl, popup_info)
         IN /\ mapper' = IF IsSome(initial_popup)
                         THEN add_interaction(mapper, Get(initial_popup))
                         ELSE mapper
            /\ last_probe' = Probe("load", LoadTrigger, raised, FALSE,
                                   popup_info, url, url, initial_popup)
    /\ probe_log' = Append(probe_log, Call("load", 0))
    /\ pc' = "scan_hover"
    /\ UNCHANGED <<requests, mode, flags, use_cache, cache, now, browser, url,
                   hover_elements, popup_triggers, idx, adv_candidates,
                   adv_found, written, result>>

(* detector.find_hoverable_elements() *)
FindHoverableElementsOn(scans) ==
    /\ pc = "scan_hover"
    /\ \E scan \in scans :
         hover_elements' =
             find_hoverable_elements(scan[1], scan[2], scan[3], scan[4])
    /\ probe_log' = Append(probe_log, Call("scan_hover", 0))
    /\ pc' = "scan_popup"
    /\ UNCHANGED <<requests, mode, flags, use_cache, cache, now, browser, url, mapper,
                   popup_triggers, idx, adv_candidates, adv_found, written,
                   result, last_probe>>

FindHoverableElements == FindHoverableElementsOn(HoverScans)

(* detector.detect_popup_triggers(), then the CLI's "no interactive
   elements" return *)
DetectPopupTriggersOn(scans) ==
    /\ pc = "scan_popup"
    /\ probe_log' = Append(probe_log, Call("scan_popup", 0))
    /\ \E scan \in scans :
         LET pt == detect_popup_triggers(scan[1], scan[2])
         IN /\ popup_triggers' = pt
            /\ IF /\ mode = "cli"
                  /\ hover_elements = <<>> /\ pt = <<>>
                  /\ mapper.popup_interactions = <<>>
               THEN /\ written' = Append(written, _generate_empty_feature(TargetUrl))
                    /\ result' = Returned("no_elements",
                                          _generate_empty_feature(TargetUrl))
                    /\ pc' = "cleanup"
               ELSE /\ written' = written
                    /\ result' = result
                    /\ pc' = EnterHover(hover_elements, pt, mapper)
    /\ idx' = 1
    /\ UNCHANGED <<requests, mode, flags, use_cache, cache, now, browser, url, mapper,
                   hover_elements, adv_candidates, adv_found, last_probe>>

DetectPopupTriggers == DetectPopupTriggersOn(PopupScans)

(* what one hover probe can meet on the page.  Without a raised error:
   every menu transition, with every value of the menu-structure script
   when the probe reads it (dropdown detected) and every second snapshot
   when the probe reads that instead.  With a raised error: every raising
   call, on a page where a menu opens and on one where none does. *)
HoverObservations ==
    { [fault |-> "none", menu |-> t, menu_structure |-> ms,
       visible_before |-> vb, visible_after |-> <<HomeAnchor>>] :
        t \in {x \in MenuTransitions : dropdown_detected(x[1], x[2])},
        ms \in MenuStructures, vb \in SnapshotsBefore }
    \cup { [fault |-> "none", menu |-> t, menu_structure |-> None,
            visible_before |-> vb, visible_after |-> va] :
             t \in {x \in MenuTransitions : ~dropdown_detected(x[1], x[2])},
             vb \in SnapshotsBefore, va \in SnapshotsAfter }
    \cup { [fault |-> f, menu |-> t, menu_structure |-> Some(ShopMenu),
            visible_before |-> <<HomeAnchor>>,
            visible_after |-> <<HomeAnchor, SaleAnchor>>] :
             f \in HoverFaults \ {"none"},
             t \in {x \in MenuTransitions : x[1].count = 0 /\ x[2].count <= 1} }

(* one iteration of "for element in hover_elements[:5]"; an exception that
   left the probe would end generate_tests in its except clause *)
HoverProbeOn(observations, keep) ==
    /\ pc = "hover_loop"
    /\ \E ob \in observations :
         LET element == hover_elements[idx]
             interaction ==
                 simulate_hover_interaction(element, url, ob.fault,
                     ob.menu[1], ob.menu[2], ob.menu_structure,
                     ob.visible_before, ob.visible_after)
             raises == HoverRaises(element, ob.fault, ob.menu[1], ob.menu[2])
             m == IF IsSome(interaction)
                  THEN add_interaction(mapper, Get(interaction)) ELSE mapper
         IN IF HoverPropagates(element, ob.fault, ob.menu[1], ob.menu[2])
            THEN /\ result' = Failed("probe")
                 /\ pc' = "cleanup"
                 /\ last_probe' = Probe("hover", element, TRUE, FALSE, None,
                                        url, url, None)
                 /\ UNCHANGED <<mapper, idx>>
            ELSE /\ IsSome(interaction) =>
                        Len(mapper.hover_interactions) < MaxReveals
                 /\ mapper' = m
                 /\ last_probe' =
                        [Probe("hover", element, raises,
                               ~raises /\ dropdown_detected(ob.menu[1], ob.menu[2]),
                               None, url, url, interaction)
                           EXCEPT !.observation = IF keep THEN Some(ob) ELSE None,
                                  !.waited = HoverWaited(element, ob.fault,
                                                 ob.menu[1], ob.menu[2])]
                 /\ IF idx < HoverCount(hover_elements)
                    THEN idx' = idx + 1 /\ pc' = pc
                    ELSE idx' = 1 /\ pc' = EnterClick(popup_triggers, m)
                 /\ result' = result
    /\ probe_log' = Append(probe_log, Call("hover", idx))
    /\ UNCHANGED <<requests, mode, flags, use_cache, cache, now, browser, url,
                   hover_elements, popup_triggers, adv_candidates, adv_found,
                   written>>

HoverProbe == HoverProbeOn(HoverObservations, FALSE)

ClickPopupValues == {None, Some(PopupInfo(2))}

(* what one click probe can meet: a raising scroll or click, or a click
   that lands on some URL followed by a modal probe that raises, finds
   nothing, or finds a dialog *)
ClickObservations ==
    { [fault |-> f, raised |-> FALSE, value |-> None, navigates |-> FALSE] :
        f \in ClickFaults \ {"none"} }
    \cup { [fault |-> "none", raised |-> rv[1], value |-> rv[2], navigates |-> n] :
             rv \in {<<TRUE, Some(PopupInfo(2))>>} \cup ({FALSE} \X ClickPopupValues),
             n \in BOOLEAN }

(* one iteration of "for trigger in popup_triggers[:3]" *)
ClickProbe ==
    /\ pc = "click_loop"
    /\ \E ob \in ClickObservations :
         LET fault == ob.fault
             raised == ob.raised
             value == ob.value
             landed == IF ob.navigates THEN OtherUrl ELSE url
             element == popup_triggers[idx]
             clicked == ~ClickRaises(element, fault)
             url_after == IF clicked THEN landed ELSE url
             popup_info == IF clicked THEN _detect_popup(raised, value) ELSE None
             interaction ==
                 simulate_popup_interaction(element, url, fault, popup_info,
                                            url_after)
             m == IF IsSome(interaction)
                  THEN add_interaction(mapper, Get(interaction)) ELSE mapper
         IN IF ClickPropagates(element, fault)
            THEN /\ result' = Failed("probe")
                 /\ pc' = "cleanup"
                 /\ last_probe' = Probe("click", element, TRUE, FALSE, None,
                                        url, url, None)
                 /\ UNCHANGED <<mapper, idx, url>>
            ELSE /\ mapper' = m
                 /\ url' = url_after
                 /\ last_probe' =
                        [Probe("click", element, ~clicked, FALSE, popup_info,
                               url, url_after, interaction)
                           EXCEPT !.waited = ClickWaited(element, fault)]
                 /\ IF idx < ClickCount(popup_triggers)
                    THEN idx' = idx + 1 /\ pc' = pc
                    ELSE idx' = 1 /\ pc' = AfterPrimary(m)
                 /\ result' = result
    /\ probe_log' = Append(probe_log, Call("click", idx))
    /\ UNCHANGED <<requests, mode, flags, use_cache, cache, now, browser,
                   hover_elements, popup_triggers, adv_candidates, adv_found,
                   written>>

(* find_advanced_popup_interactions: flag check and CTA candidate scan *)
AdvancedPopupScanOn(lens) ==
    /\ pc = "adv_popup_scan"
    /\ probe_log' = Append(probe_log, Call("adv_popup_scan", 0))
    /\ \E raised \in BOOLEAN, n \in lens :
         LET candidates == IF ~flags.popup \/ raised THEN <<>> ELSE CtaList(n)
         IN /\ adv_candidates' = candidates
            /\ pc' = IF candidates = <<>> THEN AfterAdvancedPopup(mapper)
                     ELSE "adv_popup_loop"
    /\ idx' = 1
    /\ adv_found' = <<>>
    /\ UNCHANGED <<requests, mode, flags, use_cache, cache, now, browser, url, mapper,
                   hover_elements, popup_triggers, written, result,
                   last_probe>>

AdvancedPopupScan == AdvancedPopupScanOn(AdvLens)

(* one iteration of the click loop of find_advanced_popup_interactions; the
   driver adds the returned list to the mapper after the last one *)
AdvancedPopupProbe ==
    /\ pc = "adv_popup_loop"
    /\ \E ob \in ClickObservations :
         LET fault == ob.fault
             raised == ob.raised
             value == ob.value
             landed == IF ob.navigates THEN OtherUrl ELSE url
             element == adv_candidates[idx]
             clicked == ~ClickRaises(element, fault)
             url_after == IF clicked THEN landed ELSE url
             popup_info == IF clicked THEN _detect_popup(raised, value) ELSE None
             interaction ==
                 simulate_popup_interaction(element, url, fault, popup_info,
                                            url_after)
             found == IF IsSome(interaction) /\ Get(interaction).popup_appeared
                      THEN Append(adv_found, Get(interaction)) ELSE adv_found
         IN IF ClickPropagates(element, fault)
            THEN /\ result' = Failed("probe")
                 /\ pc' = "cleanup"
                 /\ last_probe' = Probe("adv_click", element, TRUE, FALSE,
                                        None, url, url, None)
                 /\ UNCHANGED <<mapper, idx, url, adv_found>>
            ELSE /\ IsSome(interaction) => Len(adv_found) < MaxReveals
                 /\ url' = url_after
                 /\ last_probe' = Probe("adv_click", element, ~clicked, FALSE,
                                        popup_info, url, url_after, interaction)
                 /\ IF idx < AdvClickCount(adv_candidates)
                    THEN /\ idx' = idx + 1 /\ pc' = pc
                         /\ adv_found' = found
                         /\ mapper' = mapper
                    ELSE /\ idx' = 1
                         /\ adv_found' = <<>>
                         /\ mapper' = add_all(mapper, found)
                         /\ pc' = AfterAdvancedPopup(add_all(mapper, found))
                 /\ result' = result
    /\ probe_log' = Append(probe_log, Call("adv_click", idx))
    /\ UNCHANGED <<requests, mode, flags, use_cache, cache, now, browser,
                   hover_elements, popup_triggers, adv_candidates, written>>

(* find_advanced_hover_interactions: flag check and loose nav scan *)
AdvancedHoverScanOn(lens) ==
    /\ pc = "adv_hover_scan"
    /\ probe_log' = Append(probe_log, Call("adv_hover_scan", 0))
    /\ \E n \in lens :
         LET loose_triggers == IF ~flags.hover THEN <<>> ELSE LooseList(n)
         IN /\ adv_candidates' = loose_triggers
            /\ pc' = IF loose_triggers = <<>> THEN "report" ELSE "adv_hover_loop"
    /\ idx' = 1
    /\ adv_found' = <<>>
    /\ UNCHANGED <<requests, mode, flags, use_cache, cache, now, browser, url, mapper,
                   hover_elements, popup_triggers, written, result,
                   last_probe>>

AdvancedHoverScan == AdvancedHoverScanOn(AdvLens)

(* one iteration of "for element in loose_triggers" *)
AdvancedHoverProbe ==
    /\ pc = "adv_hover_loop"
    /\ \E outcome \in {"raise", "null", "value"}, after \in AdvAfters :
         LET element == adv_candidates[idx]
             interaction ==
                 advanced_hover_probe(element, url, outcome, AdvBefore, after)
             found == IF IsSome(interaction)
                      THEN Append(adv_found, Get(interaction)) ELSE adv_found
         IN /\ IsSome(interaction) => Len(adv_found) < MaxReveals
            /\ last_probe' = Probe("adv_hover", element, outcome = "raise",
                                   FALSE, None, url, url, interaction)
            /\ IF idx < Len(adv_candidates)
               THEN /\ idx' = idx + 1 /\ pc' = pc
                    /\ adv_found' = found
                    /\ mapper' = mapper
               ELSE /\ idx' = 1
                    /\ adv_found' = <<>>
                    /\ mapper' = add_all(mapper, found)
                    /\ pc' = "report"
    /\ probe_log' = Append(probe_log, Call("adv_hover", idx))
    /\ UNCHANGED <<requests, mode, flags, use_cache, cache, now, browser, url,
                   hover_elements, popup_triggers, adv_candidates, written,
                   result>>

(* "if not all_interactions": the empty feature document; the locals of
   the driver go out of scope at its return *)
GenerateEmptyFeature ==
    /\ pc = "report"
    /\ mapper.interactions = <<>>
    /\ written' = Append(written, _generate_empty_feature(TargetUrl))
    /\ result' = Returned("no_interactions", _generate_empty_feature(TargetUrl))
    /\ pc' = "cleanup"
    /\ hover_elements' = <<>>
    /\ popup_triggers' = <<>>
    /\ adv_candidates' = <<>>
    /\ last_probe' = NoProbe
    /\ UNCHANGED <<requests, mode, flags, use_cache, cache, now, browser, url, mapper,
                   idx, adv_found, probe_log>>

(* DOM analysis, scenario synthesis, quality filter, Gherkin, save, cache;
   the locals of the driver go out of scope at its return *)
GenerateScenarios ==
    /\ pc = "report"
    /\ mapper.interactions # <<>>
    /\ \E raised \in BOOLEAN, scenarios \in {<<>>, <<"hover">>} :
         IF raised
         THEN /\ result' = Failed("synthesis")
              /\ written' = written
              /\ cache' = cache
         ELSE LET feature_content == generate_feature_file(TargetUrl, scenarios)
              IN /\ written' = Append(written, feature_content)
                 /\ result' = Returned("completed", feature_content)
                 /\ cache' = IF mode = "cli" /\ use_cache
                             THEN store_analysis(cache, TargetUrl,
                                                 feature_content, now)
                             ELSE cache
    /\ pc' = "cleanup"
    /\ mapper' = EmptyMapper
    /\ hover_elements' = <<>>
    /\ popup_triggers' = <<>>
    /\ adv_candidates' = <<>>
    /\ last_probe' = NoProbe
    /\ UNCHANGED <<requests, mode, flags, use_cache, now, browser, url, idx, adv_found,
                   probe_log>>

(* cli.cleanup() / the finally block of _run_analysis_async *)
Cleanup ==
    /\ pc = "cleanup"
    /\ browser' = IF browser = "open" THEN "closed" ELSE browser
    /\ pc' = "done"
    /\ UNCHANGED <<requests, mode, flags, use_cache, cache, now, url, mapper,
                   hover_elements, popup_triggers, idx, adv_candidates,
                   adv_found, written, result, probe_log, last_probe>>

Next ==
    \/ Initialize
    \/ CacheCheck
    \/ Navigate
    \/ DetectInitialPopup
    \/ FindHoverableElements
    \/ DetectPopupTriggers
    \/ HoverProbe
    \/ ClickProbe
    \/ AdvancedPopupScan
    \/ AdvancedPopupProbe
    \/ AdvancedHoverScan
    \/ AdvancedHoverProbe
    \/ GenerateEmptyFeature
    \/ GenerateScenarios
    \/ Cleanup

Spec == Init /\ [][Next]_vars

----------------------------------------------------------------------------
(* The candidate scans on their own: a loaded page, after the load-time
   probe, scanned by both drivers over a wider set of pages. *)
ScanInit ==
    /\ mode \in {"cli", "api"}
    /\ flags \in {FlagsOff, FlagsOn}
    /\ use_cache = FALSE
    /\ cache = EmptyCache
    /\ now = StartTime
    /\ pc = "scan_hover"
    /\ browser = "open"
    /\ url = TargetUrl
    /\ \E popup_info \in ClickPopupValues :
         LET initial_popup == detect_initial_popup(TargetUrl, popup_info)
         IN /\ mapper = IF IsSome(initial_popup)
                        THEN add_interaction(EmptyMapper, Get(initial_popup))
                        ELSE EmptyMapper
            /\ last_probe = Probe("load", LoadTrigger, FALSE, FALSE,
                                  popup_info, TargetUrl, TargetUrl,
                                  initial_popup)
    /\ hover_elements = <<>>
    /\ popup_triggers = <<>>
    /\ idx = 1
    /\ adv_candidates = <<>>
    /\ adv_found = <<>>
    /\ written = <<>>
    /\ result = Running
    /\ probe_log = <<Call("navigate", 0), Call("load", 0)>>
    /\ requests = NoRequests

FindHoverableElementsWide == FindHoverableElementsOn(WideHoverScans)
DetectPopupTriggersWide == DetectPopupTriggersOn(WidePopupScans)

ScanNext == FindHoverableElementsWide \/ DetectPopupTriggersWide

ScanSpec == ScanInit /\ [][ScanNext]_vars

----------------------------------------------------------------------------
(* The hover probe on its own: the hover loop of a run over a short
   candidate list, on pages with a wider set of reactions; the reaction
   met by the latest probe is kept beside its result. *)

ShopTrigger == ElementInfo("a", T_Shop, "menuitem", XPath(41), 10)
LowTrigger == ElementInfo("a", <<"l", "o", "w">>, "menuitem", XPath(42), 40)

ProbePages ==
    { <<ShopTrigger>>, <<LowTrigger>>, <<HoverCandidate(1, FALSE), ShopTrigger>> }

MenuLink(k) == [text |-> Label(k), href |-> <<"/">> \o Label(k)]

(* a menu of n links; with twin > 0 the second link repeats the target of
   the first *)
LongMenu(n, twin) ==
    [menu_type |-> "dropdown", sections |-> <<>>,
     all_links |-> [k \in 1..n |-> Label(k)],
     links |-> [k \in 1..n |->
                  IF k = 2 /\ twin > 0
                  THEN [text |-> Label(k), href |-> MenuLink(1).href]
                  ELSE MenuLink(k)]]

WideMenuStructures ==
    MenuStructures
    \cup { Some(LongMenu(n, twin)) :
             n \in {CLICKABLE_LINK_CAP, CLICKABLE_LINK_CAP + 2},
             twin \in {0, 1} }

Anchor(text, href, y) == [tag |-> "a", text |-> text, href |-> href, y |-> y]

(* second snapshots: nothing new; a new link below the trigger; a new link
   above every trigger; new links off the top of the viewport, at the edge
   of the band of a trigger at y = 10 and just beyond it; elements without
   target or text and two links to one target *)
WideSnapshotsAfter ==
    SnapshotsAfter
    \cup { <<HomeAnchor, Anchor(T_New, H_New, 5)>>,
           <<HomeAnchor, Anchor(T_New, H_New, 0 - 5),
             Anchor(T_Sale, H_Sale, 10 + max_delta_y),
             Anchor(T_Shop, H_Shop, 10 + max_delta_y + 1)>>,
           <<HomeAnchor, Anchor(T_New, <<>>, 60), Anchor(<<>>, H_New, 60),
             Anchor(<<" ">> \o T_Sale, H_Sale, 60),
             Anchor(T_Shop, H_Sale, 70)>> }

WideHoverObservations ==
    { [fault |-> "none", menu |-> t, menu_structure |-> ms,
       visible_before |-> <<HomeAnchor>>, visible_after |-> <<HomeAnchor>>] :
        t \in {x \in MenuStates \X MenuStates : dropdown_detected(x[1], x[2])},
        ms \in WideMenuStructures }
    \cup { [fault |-> "none", menu |-> t, menu_structure |-> None,
            visible_before |-> <<HomeAnchor>>, visible_after |-> va] :
             t \in {x \in MenuStates \X MenuStates : ~dropdown_detected(x[1], x[2])},
             va \in WideSnapshotsAfter }
    \cup { ob \in HoverObservations : ob.fault # "none" }

ProbeInit ==
    /\ mode \in {"cli", "api"}
    /\ flags = FlagsOff
    /\ use_cache = FALSE
    /\ cache = EmptyCache
    /\ now = StartTime
    /\ pc = "hover_loop"
    /\ browser = "open"
    /\ url = TargetUrl
    /\ mapper = EmptyMapper
    /\ last_probe = Probe("load", LoadTrigger, FALSE, FALSE, None, TargetUrl,
                          TargetUrl, None)
    /\ hover_elements \in ProbePages
    /\ popup_triggers = <<>>
    /\ idx = 1
    /\ adv_candidates = <<>>
    /\ adv_found = <<>>
    /\ written = <<>>
    /\ result = Running
    /\ probe_log = <<Call("navigate", 0), Call("load", 0),
                     Call("scan_hover", 0), Call("scan_popup", 0)>>
    /\ requests = NoRequests

HoverProbeWide == HoverProbeOn(WideHoverObservations, TRUE)

ProbeNext == HoverProbeWide

ProbeSpec == ProbeInit /\ [][ProbeNext]_vars

----------------------------------------------------------------------------
(* The extended strategies on pages with more candidates than the primary
   caps: the CLI driver after primary strategies that found nothing *)

LongAdvLens == {0, HOVER_PROBE_CAP + 1, MAX_POPUP_TRIGGERS + 1}

AdvInit ==
    /\ mode = "cli"
    /\ flags \in {FlagsOn, [popup |-> TRUE, hover |-> FALSE],
                   [popup |-> FALSE, hover |-> TRUE]}
    /\ use_cache = FALSE
    /\ cache = EmptyCache
    /\ now = StartTime
    /\ pc = AfterPrimary(EmptyMapper)
    /\ browser = "open"
    /\ url = TargetUrl
    /\ mapper = EmptyMapper
    /\ last_probe = Probe("load", LoadTrigger, FALSE, FALSE, None, TargetUrl,
                          TargetUrl, None)
    /\ hover_elements = <<>>
    /\ popup_triggers = <<>>
    /\ idx = 1
    /\ adv_candidates = <<>>
    /\ adv_found = <<>>
    /\ written = <<>>
    /\ result = Running
    /\ probe_log = <<Call("navigate", 0), Call("load", 0),
                     Call("scan_hover", 0), Call("scan_popup", 0)>>
    /\ requests = NoRequests

AdvancedPopupScanLong == AdvancedPopupScanOn(LongAdvLens)
AdvancedHoverScanLong == AdvancedHoverScanOn(LongAdvLens)

AdvNext ==
    \/ AdvancedPopupScanLong
    \/ AdvancedPopupProbe
    \/ AdvancedHoverScanLong
    \/ AdvancedHoverProbe

AdvSpec == AdvInit /\ [][AdvNext]_vars

----------------------------------------------------------------------------
(* API driver: requests served at the same time, one _run_analysis_async
   each, interleaved at their awaited calls *)

(* variant: the browser, context and page are created once and reused *)
create_shared(launched) == [browser |-> 1, context |-> 1, page |-> 1]

(* BrowserAutomation.create: a new browser, a new context in it, a new
   page in that *)
create(launched) ==
    [browser |-> launched + 1, context |-> launched + 1, page |-> launched + 1]

(* the probes of one request: hover probes, then click probes *)
ProbePlans == { <<>>, <<"hover", "click">> }

Event(r, k, phase) == [run |-> r, probe |-> k, phase |-> phase]

PageOf(r) == Get(requests.runs[r].session).page

(* the run after its current probe returned *)
AfterProbe(run) ==
    IF run.idx < Len(run.plan)
    THEN [run EXCEPT !.idx = @ + 1, !.pc = "before"]
    ELSE [run EXCEPT !.idx = 1, !.pc = "report"]

OthersUnchanged ==
    UNCHANGED <<mode, flags, use_cache, cache, now, pc, browser, url, mapper,
                hover_elements, popup_triggers, idx, adv_candidates,
                adv_found, written, result, probe_log, last_probe>>

RunCreate(r) ==
    /\ requests.runs[r].pc = "create"
    /\ LET session == create(requests.launched)
       IN requests' =
            [requests EXCEPT
               !.launched = @ + 1,
               !.runs[r] = [@ EXCEPT !.pc = "navigate",
                                     !.session = Some(session)],
               !.page_log = IF session.page > Len(@) THEN Append(@, <<>>)
                            ELSE @]
    /\ OthersUnchanged

(* browser.navigate raises or returns; an exception goes to the finally *)
RunNavigate(r) ==
    /\ requests.runs[r].pc = "navigate"
    /\ \E raised \in BOOLEAN :
         requests' = [requests EXCEPT
                        !.runs[r].pc = IF raised THEN "close" ELSE "load_probe"]
    /\ OthersUnchanged

RunDetectInitialPopup(r) ==
    /\ requests.runs[r].pc = "load_probe"
    /\ requests' = [requests EXCEPT !.runs[r].pc = "scan"]
    /\ OthersUnchanged

(* find_hoverable_elements and detect_popup_triggers, cut to [:5], [:3] *)
RunScan(r) ==
    /\ requests.runs[r].pc = "scan"
    /\ \E plan \in ProbePlans :
         requests' = [requests EXCEPT
                        !.runs[r] = [@ EXCEPT
                                       !.plan = plan, !.idx = 1,
                                       !.pc = IF plan = <<>> THEN "report"
                                              ELSE "before"]]
    /\ OthersUnchanged

(* url_before, get_visible_elements, _get_menu_state *)
RunSnapshotBefore(r) ==
    /\ requests.runs[r].pc = "before"
    /\ requests' =
         [requests EXCEPT
            !.runs[r].pc = "act",
            !.page_log[PageOf(r)] =
                Append(@, Event(r, requests.runs[r].idx, "before"))]
    /\ OthersUnchanged

(* scroll into view, then hover or click; a failure returns None *)
RunAct(r) ==
    /\ requests.runs[r].pc = "act"
    /\ \E raised \in BOOLEAN :
         LET k == requests.runs[r].idx
         IN requests' =
              [requests EXCEPT
                 !.runs[r] = IF raised THEN AfterProbe(@)
                             ELSE [@ EXCEPT !.pc = "settle"],
                 !.page_log[PageOf(r)] =
                     IF raised
                     THEN @ \o <<Event(r, k, "act"), Event(r, k, "return")>>
                     ELSE Append(@, Event(r, k, "act"))]
    /\ OthersUnchanged

(* asyncio.sleep(1.0) *)
RunSettle(r) ==
    /\ requests.runs[r].pc = "settle"
    /\ requests' =
         [requests EXCEPT
            !.runs[r].pc = "after",
            !.page_log[PageOf(r)] =
                Append(@, Event(r, requests.runs[r].idx, "settle"))]
    /\ OthersUnchanged

(* _get_menu_state / _detect_popup and the reads that follow, then return *)
RunSnapshotAfter(r) ==
    /\ requests.runs[r].pc = "after"
    /\ LET k == requests.runs[r].idx
       IN requests' =
            [requests EXCEPT
               !.runs[r] = AfterProbe(@),
               !.page_log[PageOf(r)] =
                   @ \o <<Event(r, k, "after"), Event(r, k, "return")>>]
    /\ OthersUnchanged

RunReport(r) ==
    /\ requests.runs[r].pc = "report"
    /\ requests' = [requests EXCEPT !.runs[r].pc = "close"]
    /\ OthersUnchanged

(* finally: browser.close() *)
RunClose(r) ==
    /\ requests.runs[r].pc = "close"
    /\ requests' = [requests EXCEPT !.runs[r].pc = "done"]
    /\ OthersUnchanged

SessionInit ==
    /\ mode = "api"
    /\ flags = FlagsOff
    /\ use_cache = FALSE
    /\ cache = EmptyCache
    /\ now = StartTime
    /\ pc = "done"
    /\ browser = "none"
    /\ url = BlankUrl
    /\ mapper = EmptyMapper
    /\ hover_elements = <<>>
    /\ popup_triggers = <<>>
    /\ idx = 1
    /\ adv_candidates = <<>>
    /\ adv_found = <<>>
    /\ written = <<>>
    /\ result = Running
    /\ probe_log = <<>>
    /\ last_probe = NoProbe
    /\ requests = NoRequests

SessionNext ==
    \E r \in RunIds :
        \/ RunCreate(r)
        \/ RunNavigate(r)
        \/ RunDetectInitialPopup(r)
        \/ RunScan(r)
        \/ RunSnapshotBefore(r)
        \/ RunAct(r)
        \/ RunSettle(r)
        \/ RunSnapshotAfter(r)
        \/ RunReport(r)
        \/ RunClose(r)

SessionSpec == SessionInit /\ [][SessionNext]_vars

TypeOK ==
    /\ mode \in {"cli", "api"}
    /\ pc \in {"initialize", "cache_check", "navigate", "load_probe",
               "scan_hover", "scan_popup", "hover_loop", "click_loop",
               "adv_popup_scan", "adv_popup_loop", "adv_hover_scan",
               "adv_hover_loop", "report", "cleanup", "done"}
    /\ browser \in {"none", "open", "closed"}
    /\ result.status \in {"running", "success", "failure"}

(***************************************************************************)
(* Properties                                                              *)
(***************************************************************************)
HasPopup(i) == i.popup_appeared
HasMenu(i) == IsSome(i.menu_structure)
HasLinks(i) ==
    IsSome(i.visual_changes) /\ Get(i.visual_changes).clickable_links # <<>>

(* every record a probe has handed back so far *)
Emitted ==
    SeqRange(mapper.interactions) \cup SeqRange(adv_found)
        \cup SeqRange(last_probe.returned)

ClickKinds == {"click", "adv_click"}
ProbeKinds == {"hover", "click", "adv_click", "adv_hover"}

IsPrimaryCall(c) == c.kind \in {"navigate", "load", "hover", "click"}
IsHoverCall(c) == c.kind = "hover"
IsClickCall(c) == c.kind = "click"
PrimaryCalls == SelectSeq(probe_log, IsPrimaryCall)
HoverCalls == SelectSeq(probe_log, IsHoverCall)
ClickCalls == SelectSeq(probe_log, IsClickCall)
Calls(kind, n) == [k \in 1..n |-> Call(kind, k)]

AdvPopupPcs == {"adv_popup_scan", "adv_popup_loop"}
AdvHoverPcs == {"adv_hover_scan", "adv_hover_loop"}
PastClickLoop == AdvPopupPcs \cup AdvHoverPcs \cup {"report"}
PastHoverLoop == PastClickLoop \cup {"click_loop"}
EnginePcs ==
    PastHoverLoop \cup {"navigate", "load_probe", "scan_hover", "scan_popup",
                        "hover_loop"}

(* C1: an interaction whose click changed the page URL is never recorded   *)
(* as a popup interaction: no emitted record has popup_appeared set with a *)
(* url_after different from its url_before, and a probe that observed a    *)
(* URL change hands back no popup record.                                  *)
C1_NavigationIsNotPopup ==
    /\ \A i \in Emitted :
          (IsSome(i.url_after) /\ Get(i.url_after) # i.url_before)
              => ~HasPopup(i)
    /\ (IsSome(last_probe.returned)
            /\ last_probe.url_after # last_probe.url_before)
          => ~HasPopup(Get(last_probe.returned))

C1_Witness ==
    /\ last_probe.kind = "click"
    /\ ~last_probe.faulted
    /\ IsSome(last_probe.popup_info)
    /\ last_probe.url_after # last_probe.url_before
    /\ last_probe.returned = None

(* C2: simulate_popup_interaction returns a popup interaction exactly when *)
(* the click succeeded, the modal probe found a popup and the URL is the   *)
(* one captured before the click; the record is a click with               *)
(* popup_appeared set and the probe's popup_info; otherwise it returns     *)
(* null, and it never raises into the driver.                              *)
C2_ClickProbeOutcome ==
    last_probe.kind \in ClickKinds =>
        /\ IsSome(last_probe.returned)
              <=> /\ ~last_probe.faulted
                  /\ Resolves(last_probe.element.xpath)
                  /\ IsSome(last_probe.popup_info)
                  /\ last_probe.url_after = last_probe.url_before
        /\ IsSome(last_probe.returned) =>
              LET i == Get(last_probe.returned)
              IN /\ i.action_type = "click"
                 /\ i.popup_appeared
                 /\ i.popup_info = last_probe.popup_info
                 /\ i.trigger_element = last_probe.element
                 /\ i.url_before = last_probe.url_before
        /\ result.status = "running"

C2_Witness ==
    /\ last_probe.kind = "click"
    /\ IsSome(last_probe.returned)
    /\ mapper.popup_interactions # <<>>

(* C3: every emitted interaction has popup_appeared set, or a non-null     *)
(* menu_structure, or a non-empty clickable_links; in particular a hover   *)
(* whose primary detection fires while the menu extraction yields null     *)
(* emits nothing.                                                          *)
C3_DiscoveryInvariant ==
    \A i \in Emitted : HasPopup(i) \/ HasMenu(i) \/ HasLinks(i)

(* C4 as stated: every interaction collected by the mapper has exactly one *)
(* of popup_appeared, a menu_structure, a non-empty clickable_links.       *)
C4_ExactlyOne ==
    \A k \in 1..Len(mapper.interactions) :
        LET i == mapper.interactions[k]
        IN Cardinality({f \in {"popup", "menu", "links"} :
                           \/ f = "popup" /\ HasPopup(i)
                           \/ f = "menu" /\ HasMenu(i)
                           \/ f = "links" /\ HasLinks(i)}) = 1

(* C4 amended: in every interaction collected by the mapper popup_appeared *)
(* is never set together with a menu_structure or a non-empty              *)
(* clickable_links, and a popup interaction is never a hover; a            *)
(* menu_structure and clickable_links may be present together.             *)
C4_PopupExcludesReveal ==
    \A k \in 1..Len(mapper.interactions) :
        LET i == mapper.interactions[k]
        IN /\ HasPopup(i) => ~HasMenu(i) /\ ~HasLinks(i)
           /\ HasPopup(i) => i.action_type \in {"load", "click"}
           /\ HasMenu(i) \/ HasLinks(i) => i.action_type = "hover"

C4_Witness ==
    /\ \E k \in 1..Len(mapper.interactions) :
          HasMenu(mapper.interactions[k]) /\ HasLinks(mapper.interactions[k])
    /\ \E k \in 1..Len(mapper.interactions) :
          HasPopup(mapper.interactions[k])

(* C5: a probe that fails on one candidate (stale handle, failing scroll,  *)
(* hover or click, failing extraction) returns null and raises nothing;    *)
(* the driver goes on with the remaining candidates in order, so every     *)
(* candidate within the cap is probed and the interactions of the others   *)
(* are collected.                                                          *)
C5_FaultIsolation ==
    /\ result.error # "probe"
    /\ (last_probe.kind \in ProbeKinds
            /\ (last_probe.faulted \/ ~Resolves(last_probe.element.xpath)))
          => last_probe.returned = None /\ result.status = "running"
    /\ pc \in PastHoverLoop =>
          HoverCalls = Calls("hover", HoverCount(hover_elements))
    /\ pc \in PastClickLoop =>
          ClickCalls = Calls("click", ClickCount(popup_triggers))
    /\ (last_probe.kind \in {"hover", "click"} /\ IsSome(last_probe.returned))
          => /\ mapper.interactions # <<>>
             /\ mapper.interactions[Len(mapper.interactions)]
                    = Get(last_probe.returned)
    /\ \A k \in 1..Len(mapper.interactions) :
          mapper.interactions[k].action_type \in {"hover", "click"}
              => Resolves(mapper.interactions[k].trigger_element.xpath)

C5_Witness ==
    /\ pc = "report"
    /\ \E k \in 1..HoverCount(hover_elements) :
          /\ ~Resolves(hover_elements[k].xpath)
          /\ \E j \in (k + 1)..HoverCount(hover_elements) :
                \E n \in 1..Len(mapper.hover_interactions) :
                    mapper.hover_interactions[n].trigger_element
                        = hover_elements[j]
    /\ HoverCalls = Calls("hover", 5)

(* C6: detect_initial_popup returns null when the modal probe finds        *)
(* nothing or when the detected modal has 10 or more buttons; otherwise it *)
(* returns a load interaction with popup_appeared set and the probe's      *)
(* popup_info.                                                             *)
C6_LoadPopupGuard ==
    last_probe.kind = "load" =>
        /\ last_probe.returned = None
              <=> \/ ~IsSome(last_probe.popup_info)
                  \/ Len(Get(last_probe.popup_info).buttons) >= 10
        /\ IsSome(last_probe.returned) =>
              LET i == Get(last_probe.returned)
              IN /\ i.action_type = "load"
                 /\ i.popup_appeared
                 /\ i.popup_info = last_probe.popup_info
                 /\ i.url_before = TargetUrl

C6_Witness ==
    /\ last_probe.kind = "load"
    /\ IsSome(last_probe.popup_info)
    /\ Len(Get(last_probe.popup_info).buttons) = 10
    /\ last_probe.returned = None

(* C7: a failure to start the browser or to navigate ends the run as a     *)
(* failure with no document written; a run that found no interactions      *)
(* ends as a success with the empty feature; the two are never conflated.  *)
C7_FatalFailureDistinct ==
    /\ result.error \in {"ollama", "browser_start", "navigation"} =>
          /\ result.status = "failure"
          /\ result.document = None
          /\ written = <<>>
          /\ mapper = EmptyMapper
    /\ (pc \in {"cleanup", "done"} /\ url = BlankUrl
            /\ result.returned_at # "cache_hit")
          => result.status = "failure" /\ written = <<>>
    /\ result.returned_at \in {"no_elements", "no_interactions"} =>
          /\ result.status = "success"
          /\ result.error = ""
          /\ result.document = Some(_generate_empty_feature(TargetUrl))
          /\ written = <<_generate_empty_feature(TargetUrl)>>
          /\ url # BlankUrl
    /\ pc = "done" => result.status \in {"success", "failure"}

C7_Witness ==
    /\ pc = "done"
    /\ result.error = "navigation"
    /\ browser = "closed"

(* C8: with the cache enabled, an unexpired cached row for the URL makes   *)
(* the CLI driver return the cached document without navigating, scanning  *)
(* or probing: the discovery engine is never entered.                      *)
C8_CacheHitBypassesEngine ==
    /\ (mode = "cli" /\ use_cache /\ pc \in EnginePcs) =>
          ~(/\ IsSome(cache[TargetUrl])
            /\ now <= Get(cache[TargetUrl]).expires_at
            /\ Get(cache[TargetUrl]).feature_content # NoContent)
    /\ result.returned_at = "cache_hit" =>
          /\ mode = "cli" /\ use_cache
          /\ probe_log = <<>>
          /\ url = BlankUrl
          /\ mapper = EmptyMapper
          /\ result.status = "success"
          /\ IsSome(cache[TargetUrl])
          /\ result.document = Some(Get(cache[TargetUrl]).feature_content)
          /\ written = <<Get(cache[TargetUrl]).feature_content>>

C8_Witness ==
    /\ pc = "done"
    /\ result.returned_at = "cache_hit"

(* C9: the driver navigates, runs the load-time modal probe exactly once,  *)
(* then at most 5 hover probes in candidate rank order, then at most 3     *)
(* click probes in candidate rank order; no click probe of the primary     *)
(* phase starts before the last hover probe has finished.                  *)
C9_DriverSequencing ==
    /\ \E n \in 0..2, h \in 0..5, c \in 0..3 :
          /\ PrimaryCalls =
                SubSeq(<<Call("navigate", 0), Call("load", 0)>>, 1, n)
                    \o Calls("hover", h) \o Calls("click", c)
          /\ h + c > 0 => n = 2
          /\ pc \in EnginePcs /\ c > 0 => h = HoverCount(hover_elements)
          /\ pc \in EnginePcs => h <= Len(hover_elements)
          /\ pc \in EnginePcs => c <= Len(popup_triggers)
    /\ pc \in PastHoverLoop \cup {"scan_hover", "scan_popup", "hover_loop"}
          => Len(PrimaryCalls) >= 2
    /\ last_probe.kind = "hover" =>
          last_probe.element = hover_elements[Len(HoverCalls)]
    /\ last_probe.kind = "click" =>
          last_probe.element = popup_triggers[Len(ClickCalls)]

C9_Witness ==
    /\ pc = "report"
    /\ Len(hover_elements) > 5
    /\ Len(popup_triggers) > 3
    /\ PrimaryCalls = <<Call("navigate", 0), Call("load", 0)>>
                         \o Calls("hover", 5) \o Calls("click", 3)

(* C10 as stated: the extended strategies run only when their feature flag *)
(* is enabled and the primary strategies found no interactions at all.     *)
C10_ExtendedOnlyWhenNothingFound ==
    /\ pc \in AdvPopupPcs =>
          flags.popup /\ mapper.interactions = <<>>
    /\ pc \in AdvHoverPcs =>
          flags.hover /\ mapper.interactions = <<>>

(* C10 amended: the extended popup scan runs only in the CLI driver, when  *)
(* its flag is enabled and the primary strategies collected no popup       *)
(* interaction (hover interactions may have been collected); the extended  *)
(* hover scan runs only when its flag is enabled and no interaction at all *)
(* has been collected.                                                     *)
C10_ExtendedGuards ==
    /\ pc \in AdvPopupPcs =>
          /\ mode = "cli"
          /\ flags.popup
          /\ mapper.popup_interactions = <<>>
    /\ pc \in AdvHoverPcs =>
          /\ mode = "cli"
          /\ flags.hover
          /\ mapper.interactions = <<>>
    /\ (\E k \in 1..Len(probe_log) :
            probe_log[k].kind \in {"adv_popup_scan", "adv_click"})
          => mode = "cli" /\ flags.popup
    /\ (\E k \in 1..Len(probe_log) :
            probe_log[k].kind \in {"adv_hover_scan", "adv_hover"})
          => mode = "cli" /\ flags.hover

C10_Witness ==
    /\ pc = "adv_popup_loop"
    /\ flags.popup
    /\ mapper.hover_interactions # <<>>
    /\ mapper.popup_interactions = <<>>

IsAdvClickCall(c) == c.kind = "adv_click"
IsAdvHoverCall(c) == c.kind = "adv_hover"
AdvClickCalls == SelectSeq(probe_log, IsAdvClickCall)
AdvHoverCalls == SelectSeq(probe_log, IsAdvHoverCall)

(* C11: the extended strategies are bounded by the caps of the primary     *)
(* strategies: the advanced popup scan clicks at most 3 candidates and the *)
(* advanced hover scan probes at most 5, however many their scans return.  *)
C11_ExtendedCaps ==
    /\ Len(AdvClickCalls) <= POPUP_PROBE_CAP
    /\ Len(AdvHoverCalls) <= HOVER_PROBE_CAP

(* label normalization: surrounding whitespace removed, letters lowered *)
Capitals == <<"A", "B", "C", "D", "E", "F", "G", "H", "I", "J", "K", "L", "M",
              "N", "O", "P", "Q", "R", "S", "T", "U", "V", "W", "X", "Y", "Z">>
Smalls == <<"a", "b", "c", "d", "e", "f", "g", "h", "i", "j", "k", "l", "m",
            "n", "o", "p", "q", "r", "s", "t", "u", "v", "w", "x", "y", "z">>
LowerChar(c) ==
    IF \E k \in 1..Len(Capitals) : Capitals[k] = c
    THEN Smalls[CHOOSE k \in 1..Len(Capitals) : Capitals[k] = c]
    ELSE c
Normalize(text) == LET t == Strip(text) IN [k \in 1..Len(t) |-> LowerChar(t[k])]

ScanDone == PastHoverLoop \cup {"scan_popup", "hover_loop"}

(* C12: the hover-candidate list contains no two candidates whose labels   *)
(* are equal after normalization (letter case, surrounding whitespace),    *)
(* the first-seen candidate of a label being the one kept.                 *)
C12_NormalizedDedup ==
    pc \in ScanDone =>
        \A i, j \in 1..Len(hover_elements) :
            i # j => Normalize(hover_elements[i].text)
                        # Normalize(hover_elements[j].text)

(* the raw candidate lists (strategies concatenated) that dedupe to the    *)
(* current hover candidate list                                            *)
RawListsOfScan ==
    { scan[1] \o scan[2] \o scan[3] \o scan[4] :
        scan \in { x \in WideHoverScans :
                     find_hoverable_elements(x[1], x[2], x[3], x[4])
                         = hover_elements } }

(* C13: deduplicating the deduplicated hover-candidate list returns it     *)
(* unchanged, and deduplicating the same raw list again gives the same     *)
(* list.                                                                   *)
C13_DedupIdempotent ==
    pc \in ScanDone =>
        /\ _deduplicate_elements(hover_elements) = hover_elements
        /\ \A raw \in RawListsOfScan :
              /\ _deduplicate_elements(_deduplicate_elements(raw))
                    = _deduplicate_elements(raw)
              /\ Take(_deduplicate_elements(raw), MAX_HOVER_ELEMENTS)
                    = hover_elements

C13_Witness ==
    /\ pc = "hover_loop"
    /\ Len(hover_elements) >= 2
    /\ \E raw \in RawListsOfScan : Len(raw) > Len(hover_elements)

RawPopupListsOfScan ==
    { scan[1] \o scan[2] :
        scan \in { x \in WidePopupScans :
                     detect_popup_triggers(x[1], x[2]) = popup_triggers } }

PopupScanDone == ScanDone \ {"scan_popup"}

(* C14: find_hoverable_elements returns at most 25 candidates and          *)
(* detect_popup_triggers at most 10; each returned list is the prefix, of  *)
(* that length at most, of the deduplicated raw list in discovery order    *)
(* (popup triggers deduplicated by the pair (text, locator)).              *)
C14_ScanTruncation ==
    /\ pc \in ScanDone =>
          /\ Len(hover_elements) <= 25
          /\ \A raw \in RawListsOfScan :
                LET unique == DedupByText(raw, {})
                IN /\ Len(hover_elements) = Min(25, Len(unique))
                   /\ hover_elements = SubSeq(unique, 1, Len(hover_elements))
    /\ pc \in PopupScanDone =>
          /\ Len(popup_triggers) <= 10
          /\ \A raw \in RawPopupListsOfScan :
                LET unique == DedupByKey(raw, {})
                IN /\ Len(popup_triggers) = Min(10, Len(unique))
                   /\ popup_triggers = SubSeq(unique, 1, Len(popup_triggers))
                   /\ \A i, j \in 1..Len(unique) :
                         i # j => <<unique[i].text, unique[i].xpath>>
                                     # <<unique[j].text, unique[j].xpath>>

C14_Witness ==
    /\ pc = "hover_loop"
    /\ Len(hover_elements) = 25
    /\ Len(popup_triggers) = 10
    /\ \E raw \in RawListsOfScan :
          Len(DedupByText(raw, {})) > 25 /\ Len(raw) > Len(DedupByText(raw, {}))
    /\ \E raw \in RawPopupListsOfScan :
          Len(DedupByKey(raw, {})) > 10 /\ Len(raw) > Len(DedupByKey(raw, {}))
    /\ popup_triggers[1].text = popup_triggers[2].text

(* the reaction of the page met by the latest hover probe *)
Observed == Get(last_probe.observation)
HoverObserved ==
    /\ last_probe.kind = "hover"
    /\ IsSome(last_probe.observation)
    /\ ~last_probe.faulted

(* C15: the primary hover detection confirms a dropdown if and only if the *)
(* visible-menu count increased, or stayed the same at a value of at least *)
(* 1 while the signature changed; a decreased count is not confirmed.      *)
C15_PrimaryDetection ==
    HoverObserved =>
        LET before == Observed.menu[1]
            after == Observed.menu[2]
        IN last_probe.dropdown
              <=> \/ after.count > before.count
                  \/ /\ after.count = before.count
                     /\ after.count >= 1
                     /\ after.signature # before.signature

ReturnedLinks ==
    IF IsSome(last_probe.returned) /\ HasLinks(Get(last_probe.returned))
    THEN Get(Get(last_probe.returned).visual_changes).clickable_links
    ELSE <<>>

ByFallback ==
    /\ IsSome(last_probe.returned)
    /\ Get(last_probe.returned).interaction_method = "hover-nav-diff"

(* C16: the fallback detection runs only when the primary detection found  *)
(* nothing, and every link it reports is an element with non-empty href    *)
(* and text whose (href, text) pair was absent before the hover and whose  *)
(* y lies in trigger_y <= y <= trigger_y + 500; a new link above the       *)
(* trigger is not reported.                                                *)
C16_FallbackBand ==
    (HoverObserved /\ ByFallback) =>
        /\ ~last_probe.dropdown
        /\ \A n \in 1..Len(ReturnedLinks) :
              \E k \in 1..Len(Observed.visible_after) :
                  LET el == Observed.visible_after[k]
                      trigger_y == last_probe.element.location.y
                  IN /\ Strip(el.href) = ReturnedLinks[n].target_url
                     /\ Strip(el.text) = ReturnedLinks[n].text
                     /\ Strip(el.href) # <<>> /\ Strip(el.text) # <<>>
                     /\ \A j \in 1..Len(Observed.visible_before) :
                           <<Strip(Observed.visible_before[j].href),
                             Strip(Observed.visible_before[j].text)>>
                               # <<Strip(el.href), Strip(el.text)>>
                     /\ trigger_y <= el.y
                     /\ el.y <= trigger_y + 500

(* AgentOrchestrator._fallback_hover_scenario: the link of a hover
   interaction the synthesized scenario follows *)
Lower(text) == [k \in 1..Len(text) |-> LowerChar(text[k])]

RECURSIVE RStripSlash(_)
RStripSlash(s) ==
    IF s # <<>> /\ s[Len(s)] = "/" THEN RStripSlash(SubSeq(s, 1, Len(s) - 1))
    ELSE s

UrlChars(u) ==
    IF u = TargetUrl THEN <<"/", "p">>
    ELSE IF u = SlashUrl THEN <<"/", "p", "/">>
    ELSE IF u = OtherUrl THEN <<"/", "o">>
    ELSE <<>>

HelpLabel == <<"h", "e", "l", "p">>
banned_help_texts ==
    { HelpLabel,
      <<"c", "u", "s", "t", "o", "m", "e", "r", " ", "s", "e", "r", "v", "i", "c", "e">>,
      <<"s", "u", "p", "p", "o", "r", "t">>,
      <<"c", "o", "n", "t", "a", "c", "t", " ", "u", "s">>,
      <<"c", "o", "n", "t", "a", "c", "t">>,
      <<"f", "a", "q">> }

RECURSIVE PrimaryLinkFrom(_, _, _)
PrimaryLinkFrom(clickable_links, menu_label_lower, url_chars) ==
    IF clickable_links = <<>> THEN None
    ELSE LET link == Head(clickable_links)
             text == Strip(link.text)
             href == Strip(link.target_url)
             skip == \/ text = <<>> \/ href = <<>>
                     \/ menu_label_lower # <<>> /\ Lower(text) = menu_label_lower
                     \/ /\ menu_label_lower # HelpLabel
                        /\ Lower(text) \in banned_help_texts
                     \/ RStripSlash(href) = RStripSlash(url_chars)
         IN IF skip
            THEN PrimaryLinkFrom(Tail(clickable_links), menu_label_lower,
                                 url_chars)
            ELSE Some([text |-> text, href |-> href])

primary_link(u, interaction) ==
    LET trigger_text == Take(Strip(interaction.trigger_element.text), 50)
        clickable_links ==
            IF IsSome(interaction.visual_changes)
            THEN Get(interaction.visual_changes).clickable_links ELSE <<>>
    IN PrimaryLinkFrom(clickable_links, Lower(Strip(trigger_text)), UrlChars(u))

(* Scenario A: the trigger labelled Shop, a hover that opens a menu whose  *)
(* panel holds New -> /n and Shop -> /s                                    *)
ScenarioA ==
    /\ HoverObserved
    /\ last_probe.element = ShopTrigger
    /\ last_probe.dropdown
    /\ Observed.menu_structure = Some(ShopMenu)

(* C17 as stated: in Scenario A the engine emits one hover Interaction     *)
(* whose clickable_links excludes the self-link and contains only the New  *)
(* Arrivals link.                                                          *)
C17_ScenarioA_SelfLinkExcluded ==
    ScenarioA =>
        /\ IsSome(last_probe.returned)
        /\ Get(last_probe.returned).action_type = "hover"
        /\ ReturnedLinks = << [text |-> T_New, target_url |-> H_New] >>

(* C17 amended: in Scenario A the engine emits exactly one hover           *)
(* Interaction, with a menu_structure, whose clickable_links holds both    *)
(* extracted links in order, the self-link included; the self-link is      *)
(* skipped by the scenario synthesis, which follows the New Arrivals link. *)
C17_ScenarioA_RawLinks ==
    ScenarioA =>
        /\ IsSome(last_probe.returned)
        /\ Get(last_probe.returned).action_type = "hover"
        /\ HasMenu(Get(last_probe.returned))
        /\ ReturnedLinks = << [text |-> T_New, target_url |-> H_New],
                              [text |-> T_Shop, target_url |-> H_Shop] >>
        /\ primary_link(TargetUrl, Get(last_probe.returned))
              = Some([text |-> T_New, href |-> H_New])
        /\ Len(hover_elements) = 1 =>
              mapper.interactions = <<Get(last_probe.returned)>>

C17_Witness ==
    /\ ScenarioA
    /\ hover_elements = <<ShopTrigger>>
    /\ Len(mapper.interactions) = 1
    /\ pc = "report"

(* the links of the dropdown the last hover probe confirmed *)
MenuConfirmed ==
    /\ HoverObserved
    /\ last_probe.dropdown
    /\ IsSome(Observed.menu_structure)

MenuLinks == Get(Observed.menu_structure).links

FirstWithHref(links, href) ==
    CHOOSE k \in 1..Len(links) :
        /\ links[k].href = href
        /\ \A j \in 1..(k - 1) : links[j].href # href

(* at most 10 entries, distinct targets, non-empty text, each entry the    *)
(* first extracted link with its target, entries in extraction order       *)
CappedDistinctInOrder(entries, links) ==
    /\ Len(entries) <= 10
    /\ \A i, j \in 1..Len(entries) :
           i # j => entries[i].target_url # entries[j].target_url
    /\ \A i \in 1..Len(entries) :
           /\ entries[i].text # <<>>
           /\ \E k \in 1..Len(links) : links[k].href = entries[i].target_url
           /\ entries[i].text
                 = Strip(links[FirstWithHref(links, entries[i].target_url)].text)
    /\ \A i, j \in 1..Len(entries) :
           i < j => FirstWithHref(links, entries[i].target_url)
                       < FirstWithHref(links, entries[j].target_url)

(* C18 as stated: the clickable links of a confirmed dropdown are at most  *)
(* 10, with distinct targets and non-empty text, in extraction order, and  *)
(* exactly 10 when the dropdown holds at least 10 links with distinct      *)
(* hrefs.                                                                  *)
C18_CapAfterDedup ==
    MenuConfirmed =>
        /\ CappedDistinctInOrder(ReturnedLinks, MenuLinks)
        /\ Cardinality({ MenuLinks[k].href : k \in 1..Len(MenuLinks) }) >= 10
              => Len(ReturnedLinks) = 10

(* C18 amended: the clickable links are the first 10 extracted links with  *)
(* repeated hrefs removed: at most 10, distinct targets, non-empty text,   *)
(* in extraction order, one entry for every target among the first 10      *)
(* links and none for a later link; hence exactly 10 only when the first   *)
(* 10 extracted links have distinct hrefs.                                 *)
C18_DedupWithinFirstTen ==
    MenuConfirmed =>
        LET first_ten == Take(MenuLinks, 10)
        IN /\ CappedDistinctInOrder(ReturnedLinks, first_ten)
           /\ { ReturnedLinks[i].target_url : i \in 1..Len(ReturnedLinks) }
                 = { first_ten[k].href : k \in 1..Len(first_ten) }

(* twelve links, eleven targets, the second repeating the first: nine      *)
(* entries                                                                 *)
C18_Witness ==
    /\ MenuConfirmed
    /\ Len(MenuLinks) = 12
    /\ MenuLinks[2].href = MenuLinks[1].href
    /\ Len(ReturnedLinks) = 9

(* C19: a hover or click probe of a candidate whose locator is stale       *)
(* returns 'no interaction' after at most the short per-action timeout     *)
(* (5 s for hover, INTERACTION_TIMEOUT for click), never after the page's  *)
(* default timeout, the scroll into view included.                         *)
C19_StaleFailsFast ==
    (last_probe.kind \in {"hover", "click"}
        /\ ~Resolves(last_probe.element.xpath))
    => /\ last_probe.returned = None
       /\ last_probe.waited
             <= (IF last_probe.kind = "hover" THEN 5000
                 ELSE INTERACTION_TIMEOUT * 1000)
       /\ last_probe.waited < BROWSER_TIMEOUT

(* the probes that logged on a page, and what each logged, in order *)
ProbesOn(p) ==
    { <<requests.page_log[p][j].run, requests.page_log[p][j].probe>> :
        j \in 1..Len(requests.page_log[p]) }

PhasesOf(p, rk) ==
    LET Mine(e) == e.run = rk[1] /\ e.probe = rk[2]
        events == SelectSeq(requests.page_log[p], Mine)
    IN [j \in 1..Len(events) |-> events[j].phase]

IsPrefix(s, t) == Len(s) <= Len(t) /\ s = SubSeq(t, 1, Len(s))

OpenProbes(p) ==
    { rk \in ProbesOn(p) :
        LET phases == PhasesOf(p, rk)
        IN phases[1] = "before" /\ phases[Len(phases)] # "return" }

Sessions == { r \in RunIds : IsSome(requests.runs[r].session) }

(* C20: on one page session at most one probe is between its snapshot-     *)
(* before and its return, the events of two probes never interleave, and a *)
(* probe runs snapshot-before, act, settle delay, snapshot-after in that   *)
(* order (or ends at a failed act); two requests served at the same time   *)
(* never share a browser, a context or a page.                             *)
C20_SerialProbesIsolatedSessions ==
    /\ \A p \in 1..Len(requests.page_log) :
         /\ Cardinality(OpenProbes(p)) <= 1
         /\ \A i, j, k \in 1..Len(requests.page_log[p]) :
              LET log == requests.page_log[p]
              IN (i < j /\ j < k /\ log[i].run = log[k].run
                    /\ log[i].probe = log[k].probe)
                 => (log[j].run = log[i].run /\ log[j].probe = log[i].probe)
         /\ \A rk \in ProbesOn(p) :
              \/ IsPrefix(PhasesOf(p, rk),
                          <<"before", "act", "settle", "after", "return">>)
              \/ PhasesOf(p, rk) = <<"before", "act", "return">>
    /\ \A r1, r2 \in Sessions :
         r1 # r2 =>
            LET s1 == Get(requests.runs[r1].session)
                s2 == Get(requests.runs[r2].session)
            IN /\ s1.browser # s2.browser
               /\ s1.context # s2.context
               /\ s1.page # s2.page

(* two requests are both inside a probe, each on its own page *)
C20_Witness ==
    /\ requests.runs[1].pc = "settle"
    /\ requests.runs[2].pc = "after"
    /\ PageOf(1) # PageOf(2)
    /\ OpenProbes(PageOf(1)) = { <<1, requests.runs[1].idx>> }
    /\ OpenProbes(PageOf(2)) = { <<2, requests.runs[2].idx>> }
    /\ requests.runs[2].idx = 2

----------------------------------------------------------------------------
(* Candidate scanner strategies as functions of the page's elements *)

HOVER_TEXT_CAP == 50             \* text.length < 50, text.length > 50
POPUP_TEXT_CAP == 100            \* text.substring(0, 100)
LOOSE_NAV_TOP == 200             \* rect.top > 200
VIEWPORT_HEIGHT == 1080

(* an element of the page: what the scan scripts read of it, and the
   selectors of the strategies it matches *)
DomElement(tag, text, xpath, width, height, y, display, href, marks) ==
    [tag |-> tag, text |-> text, role |-> "button", xpath |-> xpath,
     rect |-> [x |-> 0, y |-> y, width |-> width, height |-> height],
     display |-> display, href |-> href, marks |-> marks]

(* the ElementInfo a scan script builds *)
ScannedElementInfo(el, text) ==
    [tag |-> el.tag, text |-> text, role |-> el.role, xpath |-> el.xpath,
     location |-> [x |-> el.rect.x, y |-> el.rect.y,
                   width |-> el.rect.width, height |-> el.rect.height]]

(* variant: one positive side is enough *)
HasBox_either(el) == el.rect.width > 0 \/ el.rect.height > 0

(* rect.width > 0 && rect.height > 0 *)
HasBox(el) == el.rect.width > 0 /\ el.rect.height > 0

(* display is not none and visibility is not hidden *)
Shown(el) == el.display \notin {"none", "hidden"}

(* _find_aria_menu_triggers, _find_nav_menu_triggers and
   _find_css_dropdown_triggers: boxed, trimmed text of 1..49 characters,
   first element of each text *)
RECURSIVE StrictFrom(_, _, _)
StrictFrom(els, seen, mark) ==
    IF els = <<>> THEN <<>>
    ELSE LET el == Head(els)
             text == Strip(el.text)
         IN IF /\ mark \in el.marks
               /\ HasBox(el)
               /\ Len(text) > 0 /\ Len(text) < HOVER_TEXT_CAP
               /\ text \notin seen
            THEN <<ScannedElementInfo(el, text)>>
                 \o StrictFrom(Tail(els), seen \cup {text}, mark)
            ELSE StrictFrom(Tail(els), seen, mark)

(* _find_nav_menu_triggers_loose: boxed, shown, in the top 200 px, trimmed
   text of 1..50 characters, first element of each lowered text *)
RECURSIVE LooseFrom(_, _)
LooseFrom(els, seen) ==
    IF els = <<>> THEN <<>>
    ELSE LET el == Head(els)
             text == Strip(el.text)
         IN IF /\ "nav_loose" \in el.marks
               /\ HasBox(el) /\ Shown(el)
               /\ el.rect.y <= LOOSE_NAV_TOP
               /\ text # <<>> /\ Len(text) <= HOVER_TEXT_CAP
               /\ Lower(text) \notin seen
            THEN <<ScannedElementInfo(el, text)>>
                 \o LooseFrom(Tail(els), seen \cup {Lower(text)})
            ELSE LooseFrom(Tail(els), seen)

(* the classic script of detect_popup_triggers: boxed, non-empty trimmed
   text, cut to 100 characters *)
RECURSIVE ClassicFrom(_)
ClassicFrom(els) ==
    IF els = <<>> THEN <<>>
    ELSE LET el == Head(els)
             text == Strip(el.text)
         IN IF "classic" \in el.marks /\ HasBox(el) /\ text # <<>>
            THEN <<ScannedElementInfo(el, Take(text, POPUP_TEXT_CAP))>>
                 \o ClassicFrom(Tail(els))
            ELSE ClassicFrom(Tail(els))

(* _find_external_link_triggers: boxed, shown anchors to another host in
   the top 95% of the viewport, first of each (lowered text, href) *)
RECURSIVE ExternalFrom(_, _)
ExternalFrom(els, seen) ==
    IF els = <<>> THEN <<>>
    ELSE LET el == Head(els)
             text == Strip(el.text)
             key == <<Lower(text), el.href>>
         IN IF /\ "external" \in el.marks
               /\ HasBox(el) /\ Shown(el) /\ text # <<>>
               /\ el.rect.y * 100 <= VIEWPORT_HEIGHT * 95
               /\ key \notin seen
            THEN << [ScannedElementInfo(el, Take(text, POPUP_TEXT_CAP))
                       EXCEPT !.tag = "a", !.role = "link"] >>
                 \o ExternalFrom(Tail(els), seen \cup {key})
            ELSE ExternalFrom(Tail(els), seen)

(* the four hover strategies; each returns [] from its own except clause *)
HoverStrategies(dom, raised) ==
    << IF raised[1] THEN <<>> ELSE StrictFrom(dom, {}, "aria"),
       IF raised[2] THEN <<>> ELSE StrictFrom(dom, {}, "nav_strict"),
       IF raised[3] THEN <<>> ELSE LooseFrom(dom, {}),
       IF raised[4] THEN <<>> ELSE StrictFrom(dom, {}, "css") >>

(* variant: one try block around both strategies *)
PopupStrategies_single_try(dom, raised) ==
    IF raised[1] THEN << <<>>, <<>> >>
    ELSE << ClassicFrom(dom),
            IF raised[2] THEN <<>> ELSE ExternalFrom(dom, {}) >>

(* the two popup strategies, each inside its own try block of
   detect_popup_triggers *)
PopupStrategies(dom, raised) ==
    << IF raised[1] THEN <<>> ELSE ClassicFrom(dom),
       IF raised[2] THEN <<>> ELSE ExternalFrom(dom, {}) >>

(* pages: labels at and around the caps, boxes with a zero side, hidden
   and low elements, blank labels, a label repeated in capitals *)
LongText(n) == [k \in 1..n |-> "x"]

DomPageA ==
    << DomElement("a", <<" ">> \o T_Shop, XPath(1), 80, 20, 10, "block", H_Shop,
                  {"aria", "nav_loose"}),
       DomElement("a", T_New, XPath(2), 0, 20, 10, "block", H_New,
                  {"aria", "nav_strict", "nav_loose", "classic"}),
       DomElement("li", T_Sale, XPath(3), 80, 0, 10, "block", H_Sale,
                  {"nav_strict", "css", "classic", "external"}),
       DomElement("a", LongText(HOVER_TEXT_CAP - 1), XPath(4), 80, 20, 10,
                  "block", H_Home, {"aria", "css"}),
       DomElement("a", LongText(HOVER_TEXT_CAP), XPath(5), 80, 20, 10,
                  "block", H_Home, {"aria", "nav_loose", "css"}),
       DomElement("a", LongText(HOVER_TEXT_CAP + 1), XPath(6), 80, 20, 10,
                  "block", H_Home, {"nav_strict", "nav_loose"}),
       DomElement("button", <<" ", " ">>, XPath(7), 80, 20, 10, "block", <<>>,
                  {"aria", "nav_loose", "classic", "external"}),
       DomElement("a", T_Home, XPath(8), 80, 20, 10, "none", H_Home,
                  {"nav_loose", "external"}),
       DomElement("a", T_Home, XPath(9), 80, 20, LOOSE_NAV_TOP + 1, "block",
                  H_Home, {"nav_loose", "classic"}),
       DomElement("button", LongText(POPUP_TEXT_CAP + 1), XPath(10), 80, 20,
                  300, "block", <<>>, {"classic"}),
       DomElement("a", T_Sale, XPath(11), 80, 20, 1027, "block", H_Sale,
                  {"external"}),
       DomElement("a", T_New, XPath(12), 80, 20, 400, "hidden", H_New,
                  {"external"}) >>

DomPageB ==
    << DomElement("a", T_Shop, XPath(21), 80, 20, 10, "block", H_Shop,
                  {"aria", "nav_strict", "nav_loose", "css", "classic"}),
       DomElement("a", Lower(T_Shop), XPath(22), 80, 20, 10, "block", H_Shop,
                  {"nav_loose", "css", "external"}),
       DomElement("a", T_New, XPath(23), 80, 20, 30, "block", H_New,
                  {"nav_strict", "css", "external"}),
       DomElement("a", LongText(POPUP_TEXT_CAP), XPath(24), 80, 20, 1026,
                  "block", H_Sale, {"external", "classic"}) >>

DomPages == { <<>>, DomPageA, DomPageB }

RaisedHover == [1..4 -> BOOLEAN]
RaisedPopup == [1..2 -> BOOLEAN]

StrategyInit ==
    /\ mode \in {"cli", "api"}
    /\ flags = FlagsOff
    /\ use_cache = FALSE
    /\ cache = EmptyCache
    /\ now = StartTime
    /\ pc = "scan_hover"
    /\ browser = "open"
    /\ url = TargetUrl
    /\ mapper = EmptyMapper
    /\ last_probe = Probe("load", LoadTrigger, FALSE, FALSE, None, TargetUrl,
                          TargetUrl, None)
    /\ hover_elements = <<>>
    /\ popup_triggers = <<>>
    /\ idx = 1
    /\ adv_candidates = <<>>
    /\ adv_found = <<>>
    /\ written = <<>>
    /\ result = Running
    /\ probe_log = <<Call("navigate", 0), Call("load", 0)>>
    /\ requests = NoRequests

(* find_hoverable_elements on a page where any of its strategies' scripts
   may fail *)
FindHoverableElementsDom ==
    /\ pc = "scan_hover"
    /\ \E dom \in DomPages, raised \in RaisedHover :
         LET found == HoverStrategies(dom, raised)
         IN /\ hover_elements' =
                  find_hoverable_elements(found[1], found[2], found[3], found[4])
            /\ last_probe' =
                  [Probe("scan_hover", LoadTrigger, FALSE, FALSE, None, url,
                         url, None)
                     EXCEPT !.observation =
                              Some([dom |-> dom, raised |-> raised,
                                    found |-> found])]
    /\ probe_log' = Append(probe_log, Call("scan_hover", 0))
    /\ pc' = "scan_popup"
    /\ UNCHANGED <<requests, mode, flags, use_cache, cache, now, browser, url,
                   mapper, popup_triggers, idx, adv_candidates, adv_found,
                   written, result>>

(* detect_popup_triggers on a page where any of its strategies may fail *)
DetectPopupTriggersDom ==
    /\ pc = "scan_popup"
    /\ \E dom \in DomPages, raised \in RaisedPopup :
         LET found == PopupStrategies(dom, raised)
         IN /\ popup_triggers' = detect_popup_triggers(found[1], found[2])
            /\ last_probe' =
                  [Probe("scan_popup", LoadTrigger, FALSE, FALSE, None, url,
                         url, None)
                     EXCEPT !.observation =
                              Some([dom |-> dom, raised |-> raised,
                                    found |-> found])]
    /\ probe_log' = Append(probe_log, Call("scan_popup", 0))
    /\ pc' = "hover_loop"
    /\ UNCHANGED <<requests, mode, flags, use_cache, cache, now, browser, url,
                   mapper, hover_elements, idx, adv_candidates, adv_found,
                   written, result>>

StrategyNext == FindHoverableElementsDom \/ DetectPopupTriggersDom

StrategySpec == StrategyInit /\ [][StrategyNext]_vars

(* the scan the last action made and what its strategies returned *)
Scanned(kind) ==
    last_probe.kind = kind /\ IsSome(last_probe.observation)

StrategyLists ==
    LET found == Get(last_probe.observation).found
    IN {found[k] : k \in DOMAIN found}

VisibleWithin(el, cap) ==
    /\ el.location.width > 0
    /\ el.location.height > 0
    /\ el.text # <<>>
    /\ Len(el.text) <= cap

(* C21: every ElementInfo returned by a scanner strategy, hover or popup,  *)
(* and so every candidate of the scan, has positive width and height,      *)
(* non-empty text, and text no longer than the strategy's cap (50 for the  *)
(* hover strategies, 100 for the popup strategies).                        *)
C21_VisibilityInvariant ==
    /\ Scanned("scan_hover") =>
          /\ \A list \in StrategyLists : \A k \in 1..Len(list) :
                VisibleWithin(list[k], HOVER_TEXT_CAP)
          /\ \A k \in 1..Len(hover_elements) :
                VisibleWithin(hover_elements[k], HOVER_TEXT_CAP)
    /\ Scanned("scan_popup") =>
          /\ \A list \in StrategyLists : \A k \in 1..Len(list) :
                VisibleWithin(list[k], POPUP_TEXT_CAP)
          /\ \A k \in 1..Len(popup_triggers) :
                VisibleWithin(popup_triggers[k], POPUP_TEXT_CAP)

(* a popup scan of the page with a 101-character label and boxes with a    *)
(* zero side: the label is returned cut to the cap                         *)
C21_Witness ==
    /\ Scanned("scan_popup")
    /\ Get(last_probe.observation).dom = DomPageA
    /\ Get(last_probe.observation).raised = [k \in 1..2 |-> FALSE]
    /\ \E k \in 1..Len(popup_triggers) :
          Len(popup_triggers[k].text) = POPUP_TEXT_CAP
    /\ \E k \in 1..Len(hover_elements) :
          Len(hover_elements[k].text) = HOVER_TEXT_CAP

ScanObserved == Get(last_probe.observation)

Succeeded == { k \in DOMAIN ScanObserved.raised : ~ScanObserved.raised[k] }

(* C25: a script failure inside one scanner strategy is not fatal and does *)
(* not discard the others: the scan returns, without raising, exactly the  *)
(* deduplicated candidates of the strategies that succeeded.               *)
C25_StrategyFaultIsolation ==
    /\ Scanned("scan_hover") =>
          LET clean == HoverStrategies(ScanObserved.dom, [k \in 1..4 |-> FALSE])
          IN /\ \A k \in Succeeded : \A j \in 1..Len(clean[k]) :
                   \E i \in 1..Len(hover_elements) :
                       hover_elements[i].text = clean[k][j].text
             /\ \A i \in 1..Len(hover_elements) :
                   \E k \in Succeeded : \E j \in 1..Len(clean[k]) :
                       hover_elements[i] = clean[k][j]
             /\ \A i, j \in 1..Len(hover_elements) :
                   i # j => hover_elements[i].text # hover_elements[j].text
             /\ result = Running /\ pc = "scan_popup"
    /\ Scanned("scan_popup") =>
          LET clean == PopupStrategies(ScanObserved.dom, [k \in 1..2 |-> FALSE])
          IN /\ \A k \in Succeeded : \A j \in 1..Len(clean[k]) :
                   \E i \in 1..Len(popup_triggers) :
                       /\ popup_triggers[i].text = clean[k][j].text
                       /\ popup_triggers[i].xpath = clean[k][j].xpath
             /\ \A i \in 1..Len(popup_triggers) :
                   \E k \in Succeeded : \E j \in 1..Len(clean[k]) :
                       popup_triggers[i] = clean[k][j]
             /\ \A i, j \in 1..Len(popup_triggers) :
                   i # j => \/ popup_triggers[i].text # popup_triggers[j].text
                            \/ popup_triggers[i].xpath # popup_triggers[j].xpath
             /\ result = Running /\ pc = "hover_loop"

(* the classic popup script fails, the external-link strategy succeeds and *)
(* its candidates are returned; before that a hover scan lost two of its   *)
(* strategies and kept the others' candidates                              *)
C25_Witness ==
    /\ Scanned("scan_popup")
    /\ ScanObserved.dom = DomPageB
    /\ ScanObserved.raised = <<TRUE, FALSE>>
    /\ Len(popup_triggers) = 3
    /\ hover_elements # <<>>

----------------------------------------------------------------------------
(* AgentOrchestrator.generate_scenarios: one synthesis per grouped
   interaction, each inside its own try block *)

GenericPhrases == {"button element", "element", "the ''", "with the title ''"}

(* a TestScenario: its steps, and the generic phrases its text contains *)
TestScenario(steps, generic) == [steps |-> steps, generic |-> generic]

(* TestScenario.is_valid *)
is_valid(scenario) ==
    /\ Len(scenario.steps) >= 3
    /\ \A k \in 1..Len(scenario.steps) : Strip(scenario.steps[k]) # <<>>
    /\ ~(Cardinality(scenario.generic \cap GenericPhrases) > 2)

(* "|".join(steps) *)
RECURSIVE JoinBar(_)
JoinBar(steps) ==
    IF steps = <<>> THEN <<>>
    ELSE IF Len(steps) = 1 THEN steps[1]
    ELSE steps[1] \o <<"|">> \o JoinBar(Tail(steps))

element_key(interaction) ==
    << Take(interaction.trigger_element.text, 50),
       interaction.trigger_element.tag, interaction.action_type >>

(* _group_interactions: positions of the interactions kept, by group *)
RECURSIVE GroupFrom(_, _, _, _)
GroupFrom(interactions, k, seen_elements, group) ==
    IF k > Len(interactions) THEN <<>>
    ELSE LET interaction == interactions[k]
             key == element_key(interaction)
             mine == IF interaction.action_type = "hover" THEN "hover"
                     ELSE IF interaction.popup_appeared THEN "popup"
                     ELSE "none"
         IN IF key \in seen_elements
            THEN GroupFrom(interactions, k + 1, seen_elements, group)
            ELSE (IF mine = group THEN <<k>> ELSE <<>>)
                 \o GroupFrom(interactions, k + 1, seen_elements \cup {key},
                              group)

_group_interactions(interactions) ==
    [hover |-> GroupFrom(interactions, 1, {}, "hover"),
     popup |-> GroupFrom(interactions, 1, {}, "popup")]

(* what the synthesis of one interaction does: raises, returns None, or
   returns a scenario *)
Accepted(outcome, seen_scenarios) ==
    /\ ~outcome.raised
    /\ IsSome(outcome.scenario)
    /\ is_valid(Get(outcome.scenario))
    /\ JoinBar(Get(outcome.scenario).steps) \notin seen_scenarios

RECURSIVE AcceptFrom(_, _, _)
RECURSIVE AcceptFrom_one_try(_, _, _)
(* variant: one try block around the whole loop *)
AcceptFrom_one_try(order, outcomes, seen_scenarios) ==
    IF order = <<>> THEN <<>>
    ELSE LET outcome == outcomes[Head(order)]
         IN IF outcome.raised THEN <<>>
            ELSE IF Accepted(outcome, seen_scenarios)
            THEN <<Get(outcome.scenario)>>
                 \o AcceptFrom_one_try(Tail(order), outcomes,
                        seen_scenarios
                            \cup {JoinBar(Get(outcome.scenario).steps)})
            ELSE AcceptFrom_one_try(Tail(order), outcomes, seen_scenarios)

AcceptFrom(order, outcomes, seen_scenarios) ==
    IF order = <<>> THEN <<>>
    ELSE LET outcome == outcomes[Head(order)]
         IN IF Accepted(outcome, seen_scenarios)
            THEN <<Get(outcome.scenario)>>
                 \o AcceptFrom(Tail(order), outcomes,
                        seen_scenarios
                            \cup {JoinBar(Get(outcome.scenario).steps)})
            ELSE AcceptFrom(Tail(order), outcomes, seen_scenarios)

(* the hover loop, then the popup loop, sharing _seen_scenarios *)
generate_scenarios(interactions, outcomes) ==
    LET interaction_groups == _group_interactions(interactions)
    IN AcceptFrom(interaction_groups.hover \o interaction_groups.popup,
                  outcomes, {})

(* scenarios a synthesis can return: two valid ones, one with two steps,
   one with a blank step, one made of generic phrases *)
Step(c) == <<c>>
ScenarioHover == TestScenario(<<Step("G"), Step("W"), Step("T")>>, {})
ScenarioPopup == TestScenario(<<Step("G"), Step("C"), Step("T")>>, {"element"})
ScenarioShort == TestScenario(<<Step("G"), Step("T")>>, {})
ScenarioBlank == TestScenario(<<Step("G"), Step(" "), Step("T")>>, {})
ScenarioGeneric ==
    TestScenario(<<Step("G"), Step("W"), Step("E")>>,
                 {"button element", "element", "the ''"})

SynthesisOutcomes ==
    { [raised |-> TRUE, scenario |-> None],
      [raised |-> FALSE, scenario |-> None] }
    \cup { [raised |-> FALSE, scenario |-> Some(s)] :
             s \in {ScenarioHover, ScenarioPopup, ScenarioShort,
                    ScenarioBlank, ScenarioGeneric} }

(* interaction lists: a hover and a click record; with a second hover
   record of the same label and tag; with a load record *)
HoverRecord(k) ==
    HoverMenuInteraction(HoverCandidate(k, FALSE), TargetUrl, Some(ShopMenu))
ClickRecord ==
    Interaction(PopupCandidate(1, FALSE), "click", "click-popup", None,
                TargetUrl, TRUE, Some(PopupInfo(2)), None)
LoadRecord ==
    Interaction(LoadTrigger, "load", "auto-popup", None, TargetUrl, TRUE,
                Some(PopupInfo(2)), None)

InteractionLists ==
    { <<HoverRecord(1), ClickRecord>>,
      <<ClickRecord, HoverRecord(1), HoverRecord(2)>>,
      <<LoadRecord, HoverRecord(1),
        [HoverRecord(1) EXCEPT !.url_before = OtherUrl]>> }

SynthesisInit ==
    /\ mode \in {"cli", "api"}
    /\ flags = FlagsOff
    /\ use_cache = FALSE
    /\ cache = EmptyCache
    /\ now = StartTime
    /\ pc = "report"
    /\ browser = "open"
    /\ url = TargetUrl
    /\ \E interactions \in InteractionLists :
         mapper = add_all(EmptyMapper, interactions)
    /\ last_probe = NoProbe
    /\ hover_elements = <<>>
    /\ popup_triggers = <<>>
    /\ idx = 1
    /\ adv_candidates = <<>>
    /\ adv_found = <<>>
    /\ written = <<>>
    /\ result = Running
    /\ probe_log = <<>>
    /\ requests = NoRequests

(* the report step with the synthesis of every interaction spelled out *)
GenerateScenariosFrom ==
    /\ pc = "report"
    /\ mapper.interactions # <<>>
    /\ \E outcomes \in [1..Len(mapper.interactions) -> SynthesisOutcomes] :
         LET scenarios == generate_scenarios(mapper.interactions, outcomes)
             feature_content == generate_feature_file(TargetUrl, scenarios)
         IN /\ written' = Append(written, feature_content)
            /\ result' = Returned("completed", feature_content)
            /\ last_probe' =
                  [NoProbe EXCEPT
                     !.kind = "synthesis",
                     !.observation =
                        Some([interactions |-> mapper.interactions,
                              outcomes |-> outcomes,
                              scenarios |-> scenarios])]
    /\ pc' = "cleanup"
    /\ mapper' = EmptyMapper
    /\ UNCHANGED <<requests, mode, flags, use_cache, cache, now, browser, url,
                   hover_elements, popup_triggers, idx, adv_candidates,
                   adv_found, probe_log>>

SynthesisNext == GenerateScenariosFrom

SynthesisSpec == SynthesisInit /\ [][SynthesisNext]_vars

Synthesized == last_probe.kind = "synthesis"
Synthesis == Get(last_probe.observation)

(* positions of the grouped interactions whose synthesis returned a valid  *)
(* scenario                                                                *)
Productive ==
    LET interaction_groups == _group_interactions(Synthesis.interactions)
    IN { k \in SeqRange(interaction_groups.hover \o interaction_groups.popup) :
           /\ ~Synthesis.outcomes[k].raised
           /\ IsSome(Synthesis.outcomes[k].scenario)
           /\ is_valid(Get(Synthesis.outcomes[k].scenario)) }

(* C22: synthesis failures are independent per interaction: when the       *)
(* synthesis of one interaction raises or yields an invalid scenario,      *)
(* generate_scenarios does not raise and still returns the scenario of     *)
(* every other grouped interaction (one per distinct step list), and       *)
(* nothing else.                                                           *)
C22_SynthesisIndependence ==
    Synthesized =>
        /\ result.status = "success"
        /\ \A k \in Productive :
              \E j \in 1..Len(Synthesis.scenarios) :
                  Synthesis.scenarios[j] = Get(Synthesis.outcomes[k].scenario)
        /\ \A j \in 1..Len(Synthesis.scenarios) :
              \E k \in Productive :
                  Synthesis.scenarios[j] = Get(Synthesis.outcomes[k].scenario)
        /\ \A i, j \in 1..Len(Synthesis.scenarios) :
              i # j => Synthesis.scenarios[i] # Synthesis.scenarios[j]

(* the hover synthesis raises first, the click synthesis still yields its  *)
(* scenario                                                                *)
C22_Witness ==
    /\ Synthesized
    /\ Synthesis.interactions = <<HoverRecord(1), ClickRecord>>
    /\ Synthesis.outcomes[1].raised
    /\ Synthesis.scenarios = <<ScenarioPopup>>
    /\ result.status = "success"

(***************************************************************************)
(* The modal probe script of ElementDetector._detect_popup as a function   *)
(* of the page's dialog-like elements                                      *)
(***************************************************************************)

(* the selector patterns of the script, in the order it tries them *)
modalSelectors == << "[role=dialog]", "[role=alertdialog]", "dialog", ".modal", ".popup", ".dialog", "[class*=modal]", "[class*=popup]", "[class*=dialog]", "[data-modal]", "[data-testid*=modal]" >>

(* an element of the page that some selector pattern may match: matches is
   the set of patterns matching it, opacity is its computed opacity in
   percent, title the text of its first heading, n its labelled buttons *)
ModalElement(matches, title, display, visibility, width, height, opacity, n) == [matches |-> matches, title |-> title, display |-> display, visibility |-> visibility, width |-> width, height |-> height, opacity |-> opacity, n |-> n]

ModalVisible_any_opacity(modal) ==
    ~ (modal.display = "none" \/ modal.visibility = "hidden"
       \/ modal.width <= 0 \/ modal.height <= 0)

(* the two `continue` tests of the script's inner loop, negated *)
ModalVisible(modal) ==
    /\ ~ (modal.display = "none" \/ modal.visibility = "hidden"
          \/ modal.width <= 0 \/ modal.height <= 0)
    /\ ~ (modal.opacity = 0)

(* the object the script returns for a modal matched by pattern s *)
ModalInfo(modal, s) == [title |-> modal.title, buttons |-> Buttons(modal.n), selector |-> modalSelectors[s]]

(* inner loop: the matches of pattern s in document order, from position k *)
RECURSIVE ModalsFrom(_, _, _)
ModalsFrom(modals, s, k) ==
    IF k > Len(modals) THEN None
    ELSE IF modalSelectors[s] \in modals[k].matches /\ ModalVisible(modals[k])
         THEN Some(ModalInfo(modals[k], s))
         ELSE ModalsFrom(modals, s, k + 1)

(* outer loop: the patterns in order, from pattern s; null after the last *)
RECURSIVE SelectorsFrom(_, _)
SelectorsFrom(modals, s) ==
    IF s > Len(modalSelectors) THEN None
    ELSE LET found == ModalsFrom(modals, s, 1)
         IN IF IsSome(found) THEN found ELSE SelectorsFrom(modals, s + 1)

(* the script evaluated on a page *)
modal_script(modals) == SelectorsFrom(modals, 1)

(* dialog-like elements of the pages probed *)
ModalElements ==
    { ModalElement({"[role=dialog]"}, <<"A">>, "block", "visible", 400, 300, 100, 2),
      ModalElement({"[role=dialog]"}, <<"B">>, "none", "visible", 400, 300, 100, 1),
      ModalElement({"[role=alertdialog]"}, <<"C">>, "block", "visible", 600, 900, 100, 10),
      ModalElement({"dialog"}, <<"D">>, "block", "visible", 0, 300, 100, 1),
      ModalElement({".modal", "[class*=modal]"}, <<"E">>, "block", "visible", 400, 300, 100, 0),
      ModalElement({".popup", "[class*=popup]"}, <<"F">>, "block", "hidden", 400, 300, 100, 1),
      ModalElement({"[class*=dialog]"}, <<"G">>, "flex", "visible", 400, 300, 50, 3),
      ModalElement({"[data-modal]", "[class*=modal]"}, <<"H">>, "block", "visible", 400, 300, 0, 1),
      ModalElement({"[data-testid*=modal]"}, <<"I">>, "block", "visible", 400, 0, 100, 1) }

MaxModals == 2

(* pages: the dialog-like elements in document order *)
ModalPages == UNION { [1..n -> ModalElements] : n \in 0..MaxModals }

ModalInit ==
    /\ mode \in {"cli", "api"}
    /\ flags = FlagsOff
    /\ use_cache = FALSE
    /\ cache = EmptyCache
    /\ now = StartTime
    /\ pc = "load_probe"
    /\ browser = "open"
    /\ url = TargetUrl
    /\ mapper = EmptyMapper
    /\ last_probe = NoProbe
    /\ hover_elements = <<>>
    /\ popup_triggers = <<>>
    /\ idx = 1
    /\ adv_candidates = <<>>
    /\ adv_found = <<>>
    /\ written = <<>>
    /\ result = Running
    /\ probe_log = <<Call("navigate", 0)>>
    /\ requests = NoRequests

(* detector.detect_initial_popup(url) on a page with the given dialog-like
   elements; raised: page.evaluate raises *)
DetectInitialPopupDom ==
    /\ pc = "load_probe"
    /\ \E raised \in BOOLEAN, modals \in ModalPages :
         LET popup_info == _detect_popup(raised, modal_script(modals))
             initial_popup == detect_initial_popup(TargetUrl, popup_info)
         IN /\ mapper' = IF IsSome(initial_popup)
                         THEN add_interaction(mapper, Get(initial_popup))
                         ELSE mapper
            /\ last_probe' = [Probe("load", LoadTrigger, raised, FALSE, popup_info, url, url, initial_popup) EXCEPT !.observation = Some(modals)]
    /\ probe_log' = Append(probe_log, Call("load", 0))
    /\ pc' = "scan_hover"
    /\ UNCHANGED <<requests, mode, flags, use_cache, cache, now, browser, url,
                   hover_elements, popup_triggers, idx, adv_candidates,
                   adv_found, written, result>>

ModalNext == DetectInitialPopupDom

ModalSpec == ModalInit /\ [][ModalNext]_vars

(* the modal probe has run on an observed page *)
ModalProbed == last_probe.kind = "load" /\ IsSome(last_probe.observation)

(* visibility as the specification words it *)
VisibleMatch(modal, s) ==
    /\ modalSelectors[s] \in modal.matches
    /\ modal.width > 0 /\ modal.height > 0
    /\ modal.display # "none" /\ modal.visibility # "hidden"
    /\ modal.opacity > 0

(* C23: the modal probe returns the first visible match (non-zero box, not
   display:none or visibility:hidden, opacity greater than 0) of the
   highest-priority selector pattern that has one, skipping invisible
   matches of higher-priority patterns; it returns null, without error,
   when no visible match exists or when the page evaluation fails *)
C23_ModalProbePriority ==
    ModalProbed =>
      LET modals == Get(last_probe.observation)
          hits == { s \in 1..Len(modalSelectors) : \E k \in 1..Len(modals) : VisibleMatch(modals[k], s) }
      IN IF last_probe.faulted \/ hits = {}
         THEN last_probe.popup_info = None
         ELSE LET s == CHOOSE h \in hits : \A g \in hits : h <= g
                  k == CHOOSE i \in 1..Len(modals) : VisibleMatch(modals[i], s) /\ \A j \in 1..(i - 1) : ~ VisibleMatch(modals[j], s)
              IN last_probe.popup_info = Some(ModalInfo(modals[k], s))

(* a page whose first element matches the top pattern but is not displayed,
   and whose second, visible element matches a lower pattern: the second is
   returned *)
C23_Witness ==
    /\ ModalProbed
    /\ ~ last_probe.faulted
    /\ Len(Get(last_probe.observation)) = 2
    /\ Get(last_probe.observation)[1].title = <<"B">>
    /\ Get(last_probe.observation)[2].title = <<"G">>
    /\ IsSome(last_probe.popup_info)
    /\ Get(last_probe.popup_info).selector = "[class*=dialog]"

(***************************************************************************)
(* Order of enumeration and probing in the primary phase                   *)
(***************************************************************************)

(* positions of the calls of one kind in the engine's call log *)
CallsAt(kinds) == { i \in 1..Len(probe_log) : probe_log[i].kind \in kinds }

(* C24 as stated: the popup-trigger candidates are enumerated after all    *)
(* hover probes have completed, so no hover probe runs between the         *)
(* enumeration of the popup candidates and the first click probe.          *)
C24_PopupEnumeratedAfterHovers ==
    \A s \in CallsAt({"scan_popup"}), h \in CallsAt({"hover"}) : h < s

(* C24 amended: both candidate lists are enumerated, once each and hover   *)
(* candidates first, before the first probe of either kind; every hover    *)
(* probe of the run lies between the enumeration of the popup candidates   *)
(* and the first click probe, and when there is a hover candidate no click *)
(* probe starts before a hover probe has run.                              *)
C24_EnumerateThenProbe ==
    /\ Cardinality(CallsAt({"scan_hover"})) <= 1
    /\ Cardinality(CallsAt({"scan_popup"})) <= 1
    /\ \A a \in CallsAt({"scan_hover"}), b \in CallsAt({"scan_popup"}) : a < b
    /\ \A p \in CallsAt({"hover", "click"}) :
          /\ CallsAt({"scan_hover"}) # {} /\ CallsAt({"scan_popup"}) # {}
          /\ \A s \in CallsAt({"scan_hover", "scan_popup"}) : s < p
    /\ \A h \in CallsAt({"hover"}), c \in CallsAt({"click"}) : h < c
    /\ CallsAt({"click"}) # {} /\ hover_elements # <<>>
          => CallsAt({"hover"}) # {}

(* a run that enumerated popup candidates, then hovered, then clicked *)
C24_Witness ==
    /\ pc = "report"
    /\ \E s \in CallsAt({"scan_popup"}), h \in CallsAt({"hover"}),
          c \in CallsAt({"click"}) : s < h /\ h < c

(***************************************************************************)
(* DOMCache shared by several runs: every run of the CLI opens the same    *)
(* SQLite file (config.CACHE_DB_PATH); each statement of a handler is      *)
(* executed and committed on its own connection, so the statements of      *)
(* different runs interleave                                               *)
(***************************************************************************)

MaxTicks == 2

CacheRunIds == {1, 2}

(* a run's position in generate_tests and the locals of its lookup: row is
   the fetched row, checked_at the datetime.now() of the expiry test, value
   what get_cached_analysis returned, removed the table around its DELETE *)
CacheRun(at, u, row, checked_at, value, removed) == [pc |-> at, url |-> u, row |-> row, checked_at |-> checked_at, value |-> value, removed |-> removed]

IdleRun == CacheRun("idle", BlankUrl, None, 0, None, None)

(* one committed statement on the cache table *)
Stored(r, u, entry) == [kind |-> "store", idx |-> r, url |-> u, entry |-> entry]
Deleted(r, u) == [kind |-> "delete", idx |-> r, url |-> u, entry |-> NoContent]

(* the statements of the earlier runs that left table c *)
RECURSIVE EarlierStores(_, _)
EarlierStores(c, keys) ==
    IF keys = {} THEN <<>>
    ELSE LET k == CHOOSE x \in keys : TRUE
         IN (IF IsSome(c[k]) THEN <<Stored(0, k, Get(c[k]))>> ELSE <<>>)
                \o EarlierStores(c, keys \ {k})

is_expired_at_deadline(row, t) == t >= row.expires_at

(* datetime.now() > expires_at *)
is_expired(row, t) == t > row.expires_at

(* the dictionary get_cached_analysis returns for a row *)
CachedAnalysis(row) == [url |-> row.url, feature_content |-> row.feature_content, created_at |-> row.created_at]

CacheInit ==
    /\ mode = "cli"
    /\ flags = FlagsOff
    /\ use_cache = TRUE
    /\ cache \in InitCaches
    /\ now = StartTime
    /\ pc = "cache_check"
    /\ browser = "closed"
    /\ url = BlankUrl
    /\ mapper = EmptyMapper
    /\ last_probe = NoProbe
    /\ hover_elements = <<>>
    /\ popup_triggers = <<>>
    /\ idx = 1
    /\ adv_candidates = <<>>
    /\ adv_found = <<>>
    /\ written = <<>>
    /\ result = Running
    /\ probe_log = EarlierStores(cache, CacheKeys)
    /\ requests = [r \in CacheRunIds |-> IdleRun]

CacheOthersUnchanged ==
    UNCHANGED <<mode, flags, use_cache, pc, browser, url, mapper, last_probe,
                hover_elements, popup_triggers, idx, adv_candidates,
                adv_found, written, result>>

(* get_cached_analysis: SELECT * FROM cache WHERE url = ?, fetchone(), and
   the return of None when there is no row *)
CacheSelect(r) ==
    /\ requests[r].pc = "idle"
    /\ \E u \in CacheKeys :
         requests' = [requests EXCEPT ![r] =
             IF IsSome(cache[u])
             THEN CacheRun("fetched", u, cache[u], 0, None, None)
             ELSE CacheRun("miss", u, None, 0, None, None)]
    /\ UNCHANGED <<cache, now, probe_log>>
    /\ CacheOthersUnchanged

(* get_cached_analysis: the expiry test on the fetched row and the return
   of the row's dictionary *)
CacheCheckExpiry(r) ==
    /\ requests[r].pc = "fetched"
    /\ LET run == requests[r]
           row == Get(run.row)
       IN requests' = [requests EXCEPT ![r] =
             IF is_expired(row, now)
             THEN CacheRun("expired", run.url, run.row, now, None, None)
             ELSE CacheRun("hit", run.url, run.row, now,
                           Some(CachedAnalysis(row)), None)]
    /\ UNCHANGED <<cache, now, probe_log>>
    /\ CacheOthersUnchanged

(* get_cached_analysis: await self.invalidate_cache(url); return None *)
CacheInvalidate(r) ==
    /\ requests[r].pc = "expired"
    /\ LET run == requests[r]
           after == invalidate_cache(cache, run.url)
       IN /\ cache' = after
          /\ requests' = [requests EXCEPT ![r] =
                CacheRun("miss", run.url, run.row, run.checked_at, None,
                         Some([before |-> cache, after |-> after,
                               at |-> now]))]
          /\ probe_log' = Append(probe_log, Deleted(r, run.url))
    /\ UNCHANGED now
    /\ CacheOthersUnchanged

(* generate_tests after a miss: the analysis, then store_analysis *)
CacheStore(r) ==
    /\ requests[r].pc = "miss"
    /\ LET run == requests[r]
           after == store_analysis(cache, run.url,
                                   generate_feature_file(run.url, <<"hover">>),
                                   now)
       IN /\ cache' = after
          /\ requests' = [requests EXCEPT ![r].pc = "stored"]
          /\ probe_log' = Append(probe_log,
                                 Stored(r, run.url, Get(after[run.url])))
    /\ UNCHANGED now
    /\ CacheOthersUnchanged

(* the wall clock advances by an hour *)
CacheTick ==
    /\ now < StartTime + MaxTicks
    /\ now' = now + 1
    /\ UNCHANGED <<cache, requests, probe_log>>
    /\ CacheOthersUnchanged

CacheNext ==
    \/ \E r \in CacheRunIds : CacheSelect(r)
    \/ \E r \in CacheRunIds : CacheCheckExpiry(r)
    \/ \E r \in CacheRunIds : CacheInvalidate(r)
    \/ \E r \in CacheRunIds : CacheStore(r)
    \/ CacheTick

CacheSpec == CacheInit /\ [][CacheNext]_vars

(* the entry most recently stored for u and not deleted since, according to
   the committed statements *)
LatestStored(log, u) ==
    LET at == { i \in 1..Len(log) : log[i].url = u }
    IN IF at = {} THEN None
       ELSE LET last == CHOOSE i \in at : \A j \in at : j <= i
            IN IF log[last].kind = "store" THEN Some(log[last].entry)
               ELSE None

(* the lookups that have returned *)
LookedUp == { r \in CacheRunIds : requests[r].pc \in {"hit", "miss", "stored"} }

FoundExpired(r) ==
    IsSome(requests[r].row) /\ requests[r].checked_at > Get(requests[r].row).expires_at

(* C26: get_cached_analysis(url) returns the entry most recently stored    *)
(* for exactly that URL string if and only if the current time is not past *)
(* its expires_at (store time + CACHE_EXPIRY_HOURS); for an expired entry  *)
(* it returns nothing and removes the entry, so that a later lookup is     *)
(* also a miss; entries of other URLs are never returned or removed.       *)
C26_CacheExpiry ==
    /\ \A u \in CacheKeys : cache[u] = LatestStored(probe_log, u)
    /\ \A u \in CacheKeys : IsSome(cache[u]) =>
          /\ Get(cache[u]).url = u
          /\ Get(cache[u]).expires_at = Get(cache[u]).created_at + CACHE_EXPIRY_HOURS
    /\ \A r \in LookedUp :
          LET run == requests[r]
          IN /\ IsSome(run.value) <=> IsSome(run.row) /\ ~ FoundExpired(r)
             /\ IsSome(run.value) =>
                   /\ Get(run.value) = CachedAnalysis(Get(run.row))
                   /\ Get(run.value).url = run.url
             /\ IsSome(run.row) =>
                   run.value = get_cached_analysis([EmptyCache EXCEPT ![run.url] = run.row], run.url, run.checked_at).value
             /\ IsSome(run.removed) <=> FoundExpired(r)
             /\ IsSome(run.removed) =>
                   LET del == Get(run.removed)
                   IN /\ del.after[run.url] = None
                      /\ get_cached_analysis(del.after, run.url, del.at).value = None
                      /\ \A k \in CacheKeys \ {run.url} : del.after[k] = del.before[k]

(* one run's lookup found the entry stored CACHE_EXPIRY_HOURS ago and
   returned it; after a tick another run's lookup found it expired and
   removed it, while the entry of the other URL stayed *)
C26_Witness ==
    \E r, q \in CacheRunIds :
        /\ requests[r].pc = "hit"
        /\ requests[r].url = TargetUrl
        /\ requests[r].checked_at = Get(requests[r].row).expires_at
        /\ requests[q].pc = "miss"
        /\ requests[q].url = TargetUrl
        /\ IsSome(requests[q].removed)
        /\ cache[TargetUrl] = None
        /\ IsSome(cache[SlashUrl])

(* C27 as stated: when get_cached_analysis finds an expired entry and a    *)
(* store_analysis for the same URL by another run interleaves between the  *)
(* expiry check and the delete, the freshly stored unexpired entry is      *)
(* still present afterwards.                                               *)
C27_FreshEntrySurvivesInvalidation ==
    \A r \in LookedUp :
        LET run == requests[r]
        IN IsSome(run.removed) =>
              LET del == Get(run.removed)
              IN IsSome(del.before[run.url]) /\ ~ is_expired(Get(del.before[run.url]), del.at)
                    => del.after[run.url] = del.before[run.url]

(***************************************************************************)
(* The life of a run's browser session: BrowserAutomation.create and       *)
(* close by their four resources                                           *)
(***************************************************************************)

(* handle: the driver holds the BrowserAutomation instance (self.browser in
   the CLI, the local `browser` in the API) *)
NoSession == [handle |-> FALSE, playwright |-> "none", browser |-> "none", context |-> "none", page |-> "none"]

CreateSteps == <<"start", "launch", "new_context", "new_page">>

StepOf(name) == CHOOSE k \in 1..Len(CreateSteps) : CreateSteps[k] = name

(* the resource of creation step k after a create whose step `failed`
   raised ("none": no step raised) *)
Created(k, failed) ==
    IF failed = "none" \/ k < StepOf(failed) THEN "open" ELSE "none"

(* BrowserAutomation.create: async_playwright().start(), chromium.launch,
   new_context, new_page; the instance exists only when all four returned *)
create_session(failed) == [handle |-> failed = "none", playwright |-> Created(1, failed), browser |-> Created(2, failed), context |-> Created(3, failed), page |-> Created(4, failed)]

close_page_only(session) == [session EXCEPT !.page = "closed"]

(* BrowserAutomation.close: page, context, browser, then playwright.stop() *)
close(session) ==
    [session EXCEPT !.page = "closed", !.context = "closed",
                    !.browser = "closed",
                    !.playwright = IF @ = "none" THEN @ ELSE "closed"]

LifeHoverScans == { <<HoverList(n, 0), <<>>, <<>>, <<>>>> : n \in {0, 2} }
LifePopupScans == { <<PopupList(n, 0), <<>>>> : n \in {0, 1} }

LifeInit ==
    /\ \E cfg \in Configs :
         /\ mode = cfg.mode
         /\ flags = cfg.flags
         /\ use_cache = cfg.use_cache
         /\ cache = cfg.cache
    /\ now = StartTime
    /\ pc = "initialize"
    /\ browser = NoSession
    /\ url = BlankUrl
    /\ mapper = EmptyMapper
    /\ hover_elements = <<>>
    /\ popup_triggers = <<>>
    /\ idx = 1
    /\ adv_candidates = <<>>
    /\ adv_found = <<>>
    /\ written = <<>>
    /\ result = Running
    /\ probe_log = <<>>
    /\ last_probe = NoProbe
    /\ requests = NoRequests

(* BDDTestGeneratorCLI.initialize (the Ollama check, then create) and
   step 0 of _run_analysis_async *)
CreateSession ==
    /\ pc = "initialize"
    /\ \E outcome \in {"ok", "ollama"} \cup { CreateSteps[k] : k \in 1..Len(CreateSteps) } :
         /\ outcome = "ollama" => mode = "cli"
         /\ IF outcome = "ok"
            THEN /\ browser' = create_session("none")
                 /\ pc' = IF mode = "cli" /\ use_cache THEN "cache_check"
                          ELSE "navigate"
                 /\ result' = result
            ELSE /\ browser' = IF outcome = "ollama" THEN browser
                                ELSE create_session(outcome)
                 /\ pc' = "cleanup"
                 /\ result' = Failed(IF outcome = "ollama" THEN outcome
                                     ELSE "browser_start")
    /\ UNCHANGED <<requests, mode, flags, use_cache, cache, now, url, mapper,
                   hover_elements, popup_triggers, idx, adv_candidates,
                   adv_found, written, probe_log, last_probe>>

(* cli.cleanup() in the finally of main(); the finally of
   _run_analysis_async: "if browser: await browser.close()" *)
CloseSession ==
    /\ pc = "cleanup"
    /\ browser' = IF browser.handle THEN close(browser) ELSE browser
    /\ pc' = "done"
    /\ UNCHANGED <<requests, mode, flags, use_cache, cache, now, url, mapper,
                   hover_elements, popup_triggers, idx, adv_candidates,
                   adv_found, written, result, probe_log, last_probe>>

LifeNext ==
    \/ CreateSession
    \/ CacheCheck
    \/ Navigate
    \/ DetectInitialPopup
    \/ FindHoverableElementsOn(LifeHoverScans)
    \/ DetectPopupTriggersOn(LifePopupScans)
    \/ HoverProbe
    \/ ClickProbe
    \/ AdvancedPopupScan
    \/ AdvancedPopupProbe
    \/ AdvancedHoverScan
    \/ AdvancedHoverProbe
    \/ GenerateEmptyFeature
    \/ GenerateScenarios
    \/ CloseSession

(* every call the driver awaits returns or raises: the page operations
   carry timeouts and the scripts are finite loops, so a run that can take a
   step eventually takes one *)
LifeSpec == LifeInit /\ [][LifeNext]_vars /\ WF_vars(LifeNext)

AllClosed(session) ==
    /\ session.page = "closed" /\ session.context = "closed"
    /\ session.browser = "closed" /\ session.playwright = "closed"

AllOpen(session) ==
    /\ session.handle
    /\ session.page = "open" /\ session.context = "open"
    /\ session.browser = "open" /\ session.playwright = "open"

(* where the driver awaits an operation on the page *)
PagePcs ==
    {"navigate", "load_probe", "scan_hover", "scan_popup", "hover_loop",
     "click_loop", "adv_popup_scan", "adv_popup_loop", "adv_hover_scan",
     "adv_hover_loop", "report"}

(* C28: every browser session a run creates is eventually closed on every  *)
(* way the run can end (success, zero interactions, navigation failure,    *)
(* exception during probing or synthesis): once the run has returned, its  *)
(* page, context, browser and automation driver are all closed; and no     *)
(* session is closed while the run still navigates, scans or probes.       *)
C28_SessionEventuallyClosed ==
    /\ [](browser.handle => <>(pc = "done" /\ AllClosed(browser)))
    /\ [](pc = "done" /\ browser.handle => AllClosed(browser))
    /\ [](pc \in PagePcs => AllOpen(browser))

(* a run that probed the page and whose scenario synthesis raised has
   returned a failure and left its session closed *)
C28_Witness ==
    /\ pc = "done"
    /\ result.status = "failure"
    /\ result.error = "synthesis"
    /\ CallsAt({"hover"}) # {}
    /\ browser.handle
    /\ AllClosed(browser)

(* C29 as stated: every probe of a run acts on the page loaded from the    *)
(* run's starting URL: the url_before recorded by each hover and click     *)
(* probe equals the URL the page had after the initial navigation, also    *)
(* for a probe that follows a click probe which changed the URL.           *)
C29_ProbesStartFromStartingUrl ==
    last_probe.kind \in {"hover", "click"} => last_probe.url_before = TargetUrl

IsHoverRecord(i) == i.action_type = "hover"
IsPopupRecord(i) == i.action_type # "hover"

(* C30: every Interaction the engine produces has action_type hover, click *)
(* or load and url_after unset; popup_appeared is true exactly for click   *)
(* and load and false for hover, and popup_info is present exactly when    *)
(* popup_appeared is true; InteractionMapper files each added interaction  *)
(* in exactly one of its hover list and its popup list.                    *)
C30_RecordTypeConsistency ==
    /\ \A i \in Emitted :
          /\ i.action_type \in {"hover", "click", "load"}
          /\ i.url_after = None
          /\ i.popup_appeared <=> i.action_type \in {"click", "load"}
          /\ IsSome(i.popup_info) <=> i.popup_appeared
    /\ mapper.hover_interactions = SelectSeq(mapper.interactions, IsHoverRecord)
    /\ mapper.popup_interactions = SelectSeq(mapper.interactions, IsPopupRecord)
    /\ Len(mapper.interactions) =
          Len(mapper.hover_interactions) + Len(mapper.popup_interactions)

(* a run that filed a load popup, a hover interaction and a click popup *)
C30_Witness ==
    /\ Len(mapper.interactions) >= 3
    /\ \A t \in {"hover", "click", "load"} :
          \E i \in Emitted : i.action_type = t
    /\ mapper.hover_interactions # <<>>
    /\ Len(mapper.popup_interactions) >= 2

====
